---- MODULE Spec2Model ----
(***************************************************************************)
(* Authentication and session-identity core of ConnectHub                  *)
(* (src/app/routes/auth.py, src/app/utils/auth.py, src/app/main.py).       *)
(*                                                                         *)
(* Every Python value is modelled as a string; None is the string None     *)
(* below, and Python truthiness (None and "" are falsy) is Truthy.         *)
(* Each request occupies a slot of reqs; one action is one stretch of a    *)
(* handler between two awaits.  The session of a browser is the signed     *)
(* cookie kept by Starlette's SessionMiddleware: it is read into the       *)
(* request when the request arrives and written back with the response.    *)
(***************************************************************************)
EXTENDS Integers, Sequences, FiniteSets, TLC

\* ------------------------------------------------------------------ bounds
MaxStates == 2      \* CSRF state values issued in one behaviour
MaxNow == 1         \* the clock runs over 0..MaxNow (days)

\* ------------------------------------------------------- program constants
ACCESS_TOKEN_EXPIRE_DAYS == 30
HTTP_302_FOUND == 302
HTTP_400_BAD_REQUEST == 400
HTTP_500_INTERNAL_SERVER_ERROR == 500
HTTP_200_OK == 200
SECONDS_PER_DAY == 86400

\* ------------------------------------------------------------ value domains
None == "<None>"
Truthy(v) == v # None /\ v # ""
\* Python's `a or b`
Or(a, b) == IF Truthy(a) THEN a ELSE b
\* Python's str(v)
Str(v) == IF v = None THEN "None" ELSE v

Providers == {"google", "microsoft"}
Browsers == {"b1", "b2"}
Reqs == {1, 2}
Emails == {"a@x.com", "b@x.com"}

\* email.split("@")[0] on the addresses of the model
LocalPart(e) ==
    CASE e = "a@x.com" -> "a"
      [] e = "b@x.com" -> "b"
      [] e = "A@x.com" -> "A"
      [] OTHER -> e

\* The value secrets.token_urlsafe(32) returns on its n-th call: fresh each time.
StateToken(n) == "st" \o ToString(n)

\* request.session: the keys "state" and "oauth_state" (None: key absent).
NoOAuthState == [provider |-> None, timestamp |-> -1]
EmptySession == [state |-> None, oauth_state |-> NoOAuthState]

\* The session_token cookie of a response (NoToken: no Set-Cookie).
NoToken == [sub |-> None, exp |-> -1]

\* The attributes of the session_token cookie of a response.
NoCookie == [max_age |-> -1, httponly |-> FALSE, secure |-> FALSE, samesite |-> None]

\* A session artifact as a client presents it: the payload, and whether the
\* signature is the one SECRET_KEY gives for it ("valid"), is another
\* ("tampered"), or the text is no JWT at all ("malformed").  NoArtifact: the
\* cookie, or the header, is absent.
NoArtifact == [sub |-> None, exp |-> -1, sig |-> None]
Malformed == [sub |-> None, exp |-> -1, sig |-> "malformed"]
\* The Authorization header: the number of words authorization.split() gives,
\* the first of them and the artifact in the second.
NoHeader == [words |-> 0, scheme |-> None, token |-> NoArtifact]

\* Settings (src/app/config.py): the deployments the model starts from.
Configs ==
    { [GOOGLE_CLIENT_ID |-> "id.apps.googleusercontent.com", GOOGLE_CLIENT_SECRET |-> "gsecret",
       MICROSOFT_CLIENT_ID |-> "msid", MICROSOFT_CLIENT_SECRET |-> "mssecret",
       BASE_URL |-> "http://localhost:8080"] }

\* str.strip() on the configuration strings of the model
Strip(v) == IF v \in {"", " "} THEN "" ELSE v
DELETED_CLIENT == "280308881889-79s4g1bqr6bju23lhtaeq13dj65ciju1"
\* `DELETED_CLIENT in client_id`
ContainsDeletedClient(v) == v = DELETED_CLIENT \o ".apps.googleusercontent.com"
\* client_id.endswith(".apps.googleusercontent.com")
EndsWithGoogleSuffix(v) ==
    v \in {"id.apps.googleusercontent.com", DELETED_CLIENT \o ".apps.googleusercontent.com"}

VARIABLES
    settings,    \* app.config.settings
    now,         \* datetime.utcnow(), in days
    session,     \* session[b]: the session cookie browser b holds
    users,       \* the users table: id -> row
    nextState,   \* number of state tokens generated so far, plus one
    reqs,        \* reqs[r]: the request in slot r
    consumed,    \* history: <<browser, state>> pairs a callback has deleted
    businesses,  \* the businesses table: id -> row
    profiles,    \* the professional_profiles table: id -> row
    loggedOut    \* history: what the requests GET /auth/logout answered carried

vars == <<settings, now, session, users, nextState, reqs, consumed,
          businesses, profiles, loggedOut>>

\* A request slot.  kind/browser/code/state/error/authError are the request;
\* loaded is the session as it arrived, sess the handler's request.session;
\* replay (the state parameter had been consumed in this browser before the
\* request arrived), late (the state it deleted had been consumed by an answer
\* sent while it ran), user_data (the profile the provider returned), prior
\* (the row as the commit found it), seen (the users there were when a form
\* was posted), calls (the provider endpoints called and the statements
\* sent to the database), token_resp and userinfo_resp (what the provider
\* answered), wrote (a commit changed a table) and after_logout (the state
\* parameter was in a session a logout had cleared before the request arrived)
\* are history; authorization and cookie are the credentials of the request,
\* target the row it names and valid whether its form passes the handler's
\* validation; user is request.state.user, auth_user what require_auth
\* returned, payload what the codec returned and expires_delta the ttl a direct
\* call of the codec was given;
\* status/detail/url_state/token/set_cookie/delete_cookie are the response.
IdleReq ==
    [pc |-> "idle", kind |-> None, browser |-> None,
     code |-> None, state |-> None, error |-> None, authError |-> None,
     loaded |-> EmptySession, sess |-> EmptySession,
     access_token |-> None, email |-> None, oauth_id |-> None,
     display_name |-> None, profile_picture |-> None,
     found |-> None, login_at |-> -1,
     replay |-> FALSE, late |-> FALSE, calls |-> {}, token_resp |-> None, userinfo_resp |-> None,
     wrote |-> FALSE, user_data |-> None, prior |-> None,
     password |-> None, form_display_name |-> None, seen |-> {},
     error_message |-> None, exception |-> None,
     authorization |-> NoHeader, cookie |-> NoArtifact, target |-> None, valid |-> FALSE,
     user |-> None, auth_user |-> None, payload |-> NoToken, after_logout |-> FALSE,
     expires_delta |-> -1,
     set_cookie |-> NoCookie, delete_cookie |-> FALSE,
     status |-> 0, detail |-> None, url_state |-> None, token |-> NoToken]

Init ==
    /\ settings \in Configs
    /\ now = 0
    /\ session = [b \in Browsers |-> EmptySession]
    /\ users = <<>>
    /\ nextState = 1
    /\ reqs = [r \in Reqs |-> IdleReq]
    /\ consumed = {}
    /\ businesses = <<>>
    /\ profiles = <<>>
    /\ loggedOut = {}

\* ------------------------------------------------------------------ helpers
IssuedStates == {StateToken(n) : n \in 1..(nextState - 1)}
\* What a client can put in the state parameter: any text, any issued value.
StateParams(forged) == forged \cup IssuedStates

UserIds == DOMAIN users
UsersByEmail(e) == {u \in UserIds : users[u].email = e}
\* uuid_default(): a fresh id
NewUserId == "u" \o ToString(Cardinality(UserIds) + 1)

Callbacks == {"google_callback", "microsoft_callback"}
ProviderOf(k) == IF k \in {"google_login", "google_callback"} THEN "google" ELSE "microsoft"

\* History: the state value a finished callback deleted from its session.
Consumed(rec) ==
    IF rec.kind \in Callbacks /\ rec.loaded.state # None /\ rec.sess.state = None
    THEN {<<rec.browser, rec.loaded.state>>} ELSE {}

\* History: another callback's answer had already consumed that state value.
Late(rec) == Consumed(rec) # {} /\ Consumed(rec) \subseteq consumed

\* The response leaves through SessionMiddleware, which stores request.session
\* in the browser's cookie.
Respond(r, rec) ==
    /\ reqs' = [reqs EXCEPT ![r] = [rec EXCEPT !.pc = "done", !.late = Late(rec)]]
    /\ session' = [session EXCEPT ![rec.browser] = rec.sess]
    /\ consumed' = consumed \cup Consumed(rec)

\* An exception no handler inside the middleware stack catches: the 500 response
\* is sent by the outermost error middleware, and the session is not stored.
Crash(r, rec) ==
    /\ reqs' = [reqs EXCEPT ![r] = [rec EXCEPT !.pc = "done", !.late = Late(rec),
                                               !.status = HTTP_500_INTERNAL_SERVER_ERROR,
                                               !.detail = "Internal Server Error"]]
    /\ consumed' = consumed \cup Consumed(rec)
    /\ UNCHANGED session

\* raise HTTPException(status, detail): handled inside the middleware stack.
HttpError(rec, st, msg) == [rec EXCEPT !.status = st, !.detail = msg]

\* A handler that leaves the two keys in request.session.
ClearStateSkipped(rec) == rec

\* del request.session["state"]; del request.session["oauth_state"]
ClearState(rec) == [rec EXCEPT !.sess = EmptySession]

\* ---------------------------------------------------------------- the clock
Tick ==
    /\ now < MaxNow
    /\ now' = now + 1
    /\ UNCHANGED <<settings, businesses, profiles, loggedOut, session, users, nextState, reqs, consumed>>

\* ------------------------------------------------------- a request arrives
\* The browser sends the request with the session cookie it holds.
Free(r) == reqs[r].pc \in {"idle", "done"}

Arrive(r, k, b, c, s, e, ae) ==
    /\ Free(r)
    /\ \A q \in Reqs : (q < r) => ~Free(q)
    /\ reqs' = [reqs EXCEPT ![r] =
                  [IdleReq EXCEPT !.pc = "recv", !.kind = k, !.browser = b,
                                  !.code = c, !.state = s, !.error = e, !.authError = ae,
                                  !.loaded = session[b], !.sess = session[b],
                                  !.replay = (<<b, s>> \in consumed),
                                  !.after_logout =
                                      (\E out \in loggedOut : out.browser = b /\ out.state = s)]]
    /\ UNCHANGED <<settings, businesses, profiles, loggedOut, now, session, users, nextState, consumed>>

Logins == {"google_login", "microsoft_login"}
\* Login requests not yet handled: each will draw one state token at most.
PendingLogins == {q \in Reqs : reqs[q].pc = "recv" /\ reqs[q].kind \in Logins}

ArriveLogin(r, In) ==
    \E k \in Logins, b \in In.browsers :
        /\ nextState + Cardinality(PendingLogins) <= MaxStates
        /\ Arrive(r, k, b, None, None, None, None)

ArriveGoogleCallback(r, In) ==
    \E b \in In.browsers, c \in In.codes, s \in StateParams(In.states),
       e \in In.errors, ae \in In.authErrors :
        Arrive(r, "google_callback", b, c, s, e, ae)

ArriveMicrosoftCallback(r, In) ==
    \E b \in In.browsers, c \in In.codes, s \in StateParams(In.states), e \in In.errors :
        Arrive(r, "microsoft_callback", b, c, s, e, None)


\* ------------------------------------------------------------ GET /auth/google
\* RedirectResponse(url=...): 307 unless a status code is given.
HTTP_307_TEMPORARY_REDIRECT == 307
Redirect(rec, st, url) == [rec EXCEPT !.status = st, !.detail = url]

\* A handler that keeps a state the session already holds.
StoreStateKeepPending(rec, provider, st) ==
    IF rec.sess.state # None
    THEN [rec EXCEPT !.url_state = st]
    ELSE [rec EXCEPT !.sess = [state |-> st,
                               oauth_state |-> [provider |-> provider, timestamp |-> now]],
                     !.url_state = st]

\* A handler that puts the state in the authorization URL only.
StoreStateInUrlOnly(rec, provider, st) == [rec EXCEPT !.url_state = st]

\* request.session["oauth_state"] = {...}; request.session["state"] = state
StoreState(rec, provider, st) ==
    [rec EXCEPT !.sess = [state |-> st,
                          oauth_state |-> [provider |-> provider, timestamp |-> now]],
                !.url_state = st]

GoogleLogin(r) ==
    LET rec == reqs[r]
        client_id == settings.GOOGLE_CLIENT_ID
        client_secret == settings.GOOGLE_CLIENT_SECRET
        state == StateToken(nextState)
    IN
    /\ rec.pc = "recv" /\ rec.kind = "google_login"
    /\ IF ~Truthy(client_id) \/ ~Truthy(Strip(client_id))
       THEN /\ Respond(r, Redirect(rec, HTTP_302_FOUND, "/auth/login?error=oauth_not_configured"))
            /\ UNCHANGED nextState
       ELSE IF ContainsDeletedClient(client_id)
       THEN /\ Respond(r, Redirect(rec, HTTP_302_FOUND, "/auth/login?error=deleted_client"))
            /\ UNCHANGED nextState
       ELSE IF ~EndsWithGoogleSuffix(client_id)
       THEN /\ Respond(r, Redirect(rec, HTTP_302_FOUND, "/auth/login?error=invalid_client_id"))
            /\ UNCHANGED nextState
       ELSE IF ~Truthy(client_secret) \/ ~Truthy(Strip(client_secret))
       THEN /\ Respond(r, Redirect(rec, HTTP_302_FOUND, "/auth/login?error=oauth_not_configured"))
            /\ UNCHANGED nextState
       ELSE /\ Respond(r, Redirect(StoreState(rec, "google", state), HTTP_307_TEMPORARY_REDIRECT,
                                   "https://accounts.google.com/o/oauth2/v2/auth"))
            /\ nextState' = nextState + 1
    /\ UNCHANGED <<settings, businesses, profiles, loggedOut, now, users>>

\* --------------------------------------------------------- GET /auth/microsoft
MicrosoftLogin(r) ==
    LET rec == reqs[r]
        state == StateToken(nextState)
    IN
    /\ rec.pc = "recv" /\ rec.kind = "microsoft_login"
    /\ IF ~Truthy(settings.MICROSOFT_CLIENT_ID)
       THEN /\ Respond(r, HttpError(rec, HTTP_500_INTERNAL_SERVER_ERROR,
                                    "Microsoft OAuth not configured"))
            /\ UNCHANGED nextState
       ELSE /\ Respond(r, Redirect(StoreState(rec, "microsoft", state), HTTP_307_TEMPORARY_REDIRECT,
                                   "https://login.microsoftonline.com/common/oauth2/v2.0/authorize"))
            /\ nextState' = nextState + 1
    /\ UNCHANGED <<settings, businesses, profiles, loggedOut, now, users>>

\* --------------------------------------------------- GET /auth/google/callback
\* render_template("auth/error.html", ...)
ErrorView(rec) == [rec EXCEPT !.status = HTTP_200_OK, !.detail = "auth/error.html"]

\* client.post(token_url, ...) is sent and awaited.
PostToken(rec) == [rec EXCEPT !.pc = "token", !.calls = @ \cup {"token"}]

\* A handler that reads the error parameter alone.
GoogleOAuthErrorOnlyError(rec) == rec.error

\* oauth_error = error or authError
GoogleOAuthError(rec) == Or(rec.error, rec.authError)

\* From the top of the handler to the token POST.  A state that differs from
\* the session's is logged only; the two session keys are deleted.
GoogleCallbackStart(r) ==
    LET rec == reqs[r]
        oauth_error == GoogleOAuthError(rec)
    IN
    /\ rec.pc = "recv" /\ rec.kind = "google_callback"
    /\ IF Truthy(oauth_error)
       THEN Respond(r, ErrorView(rec))
       ELSE IF ~Truthy(rec.code)
       THEN Respond(r, HttpError(rec, HTTP_400_BAD_REQUEST, "Missing authorization code"))
       ELSE /\ reqs' = [reqs EXCEPT ![r] = PostToken(ClearState(rec))]
            /\ UNCHANGED <<session, consumed>>
    /\ UNCHANGED <<settings, businesses, profiles, loggedOut, now, users, nextState>>

\* ------------------------------------------------ GET /auth/microsoft/callback
\* A handler that tests the state parameter alone.
MicrosoftMissingParameterStateOnly(rec) == ~Truthy(rec.state)

\* not code or not state
MicrosoftMissingParameter(rec) == ~Truthy(rec.code) \/ ~Truthy(rec.state)

\* not session_state or session_state != state
MicrosoftInvalidState(rec) == ~Truthy(rec.sess.state) \/ rec.sess.state # rec.state

MicrosoftCallbackStart(r) ==
    LET rec == reqs[r] IN
    /\ rec.pc = "recv" /\ rec.kind = "microsoft_callback"
    /\ IF Truthy(rec.error)
       THEN Respond(r, ErrorView(rec))
       ELSE IF MicrosoftMissingParameter(rec)
       THEN Respond(r, HttpError(rec, HTTP_400_BAD_REQUEST, "Missing code or state parameter"))
       ELSE IF MicrosoftInvalidState(rec)
       THEN Respond(r, HttpError(ClearState(rec), HTTP_400_BAD_REQUEST,
                                 "Invalid state parameter. Please try logging in again."))
       ELSE /\ reqs' = [reqs EXCEPT ![r] = PostToken(ClearState(rec))]
            /\ UNCHANGED <<session, consumed>>
    /\ UNCHANGED <<settings, businesses, profiles, loggedOut, now, users, nextState>>

\* ------------------------------------------------------ the provider's answers
\* The token endpoint: a JSON body with an access token, a JSON body without
\* one, or a failure of the call (raise_for_status(), a transport error).
TokenResponses == {"access_token", "no_access_token", "error"}

\* dict.get of the user-info JSON: None when the key is absent or null.
GoogleProfiles ==
    [email : {None, ""} \cup Emails, id : {None, "g-1"},
     name : {None, "Ann"}, picture : {None, "pic-1"}]

\* Graph's /me.  NoKey: the key is absent (user_data.get(key, "") then gives
\* ""); None: the key is there with a null value.
NoKey == "<NoKey>"
MicrosoftProfiles ==
    [mail : {None} \cup Emails, userPrincipalName : {None} \cup Emails, id : {None, "m-1"},
     displayName : {None, "Ann"}, givenName : {NoKey, None, "Ann"}, surname : {NoKey, None}]

\* user_data.get(key, default)
GetDefault(v, default) == IF v = NoKey THEN default ELSE v

\* db.execute(select(User).where(User.email == email)) is sent and awaited.
ExecuteSelect(rec, email, oauth_id, display_name, profile_picture) ==
    [rec EXCEPT !.pc = "select", !.calls = @ \cup {"select"},
                !.email = email, !.oauth_id = oauth_id,
                !.display_name = display_name, !.profile_picture = profile_picture]

\* A handler that looks the user up as soon as the token response is in.
GetUserInfoAfterSelect(rec) ==
    [rec EXCEPT !.pc = "userinfo", !.calls = @ \cup {"select", "userinfo"}]

\* client.get(user_info_url, headers=...) is sent and awaited.
GetUserInfo(rec) == [rec EXCEPT !.pc = "userinfo", !.calls = @ \cup {"userinfo"}]

\* ----------------------------------------------- google: the token response
GoogleTokenResponse(r, In) ==
    LET rec == reqs[r] IN
    /\ rec.pc = "token" /\ rec.kind = "google_callback"
    /\ \E resp \in In.tokens :
         LET access_token == IF resp = "access_token" THEN "at-1" ELSE None
             got == [rec EXCEPT !.token_resp = resp, !.access_token = access_token]
         IN
         IF resp = "error"
         THEN Crash(r, got)
         ELSE IF ~Truthy(access_token)
         THEN Respond(r, HttpError(got, HTTP_400_BAD_REQUEST,
                                   "No access token received from Google"))
         ELSE /\ reqs' = [reqs EXCEPT ![r] = GetUserInfo(got)]
              /\ UNCHANGED <<session, consumed>>
    /\ UNCHANGED <<settings, businesses, profiles, loggedOut, now, users, nextState>>

\* -------------------------------------------- google: the user-info response
\* email.split("@")[0] raises AttributeError when email is None; it is
\* evaluated (when name is falsy) before email is checked.
GoogleDisplayNameRaises(user_data) == ~Truthy(user_data.name) /\ user_data.email = None

GoogleUserInfoResponse(r, In) ==
    LET rec == reqs[r] IN
    /\ rec.pc = "userinfo" /\ rec.kind = "google_callback"
    /\ \/ Crash(r, [rec EXCEPT !.userinfo_resp = "error"])  \* raise_for_status(), transport
       \/ \E user_data \in In.google :
            LET email == user_data.email
                oauth_id == user_data.id
                profile_picture == user_data.picture
                got == [rec EXCEPT !.user_data = user_data,
                                   !.userinfo_resp =
                                     IF Truthy(email) THEN "email" ELSE "no_email"]
            IN
            IF GoogleDisplayNameRaises(user_data)
            THEN Crash(r, got)
            ELSE LET display_name == Or(user_data.name, LocalPart(email)) IN
                 IF ~Truthy(email)
                 THEN Respond(r, HttpError(got, HTTP_400_BAD_REQUEST,
                                           "Email not provided by Google"))
                 ELSE /\ reqs' = [reqs EXCEPT ![r] =
                                    ExecuteSelect(got, email, oauth_id, display_name,
                                                  profile_picture)]
                      /\ UNCHANGED <<session, consumed>>
    /\ UNCHANGED <<settings, businesses, profiles, loggedOut, now, users, nextState>>

\* ------------------------------------------- microsoft: the token response
\* The access token is not checked: the user-info call is made with whatever
\* tokens.get("access_token") returned.
MicrosoftTokenResponse(r, In) ==
    LET rec == reqs[r] IN
    /\ rec.pc = "token" /\ rec.kind = "microsoft_callback"
    /\ \E resp \in In.tokens :
         LET access_token == IF resp = "access_token" THEN "at-1" ELSE None
             got == [rec EXCEPT !.token_resp = resp, !.access_token = access_token]
         IN
         IF resp = "error"
         THEN Crash(r, got)
         ELSE /\ reqs' = [reqs EXCEPT ![r] = GetUserInfo(got)]
              /\ UNCHANGED <<session, consumed>>
    /\ UNCHANGED <<settings, businesses, profiles, loggedOut, now, users, nextState>>

\* ----------------------------------------- microsoft: the user-info response
\* The photo request that follows sets profile_picture to None whatever its
\* outcome.  givenName + " " + surname raises TypeError when either is null.
IsBlank(v) == v \in {"", " "}

MicrosoftDisplayNameRaises(user_data) ==
    /\ ~Truthy(user_data.displayName)
    /\ \/ GetDefault(user_data.givenName, "") = None
       \/ GetDefault(user_data.surname, "") = None

MicrosoftUserInfoResponse(r, In) ==
    LET rec == reqs[r] IN
    /\ rec.pc = "userinfo" /\ rec.kind = "microsoft_callback"
    /\ \/ Crash(r, [rec EXCEPT !.userinfo_resp = "error"])  \* raise_for_status(), transport
       \/ \E user_data \in In.microsoft :
            LET profile_picture == None
                email == Or(user_data.mail, user_data.userPrincipalName)
                oauth_id == user_data.id
                givenName == GetDefault(user_data.givenName, "")
                surname == GetDefault(user_data.surname, "")
                got == [rec EXCEPT !.user_data = user_data,
                                   !.userinfo_resp =
                                     IF Truthy(email) THEN "email" ELSE "no_email"]
            IN
            IF MicrosoftDisplayNameRaises(user_data)
            THEN Crash(r, got)
            ELSE LET full == Or(user_data.displayName, givenName \o " " \o surname)
                     display_name == IF IsBlank(full)
                                     THEN (IF Truthy(email) THEN LocalPart(email) ELSE "User")
                                     ELSE full
                 IN
                 IF ~Truthy(email)
                 THEN Respond(r, HttpError(got, HTTP_400_BAD_REQUEST,
                                           "Email not provided by Microsoft"))
                 ELSE /\ reqs' = [reqs EXCEPT ![r] =
                                    ExecuteSelect(got, email, oauth_id, display_name,
                                                  profile_picture)]
                      /\ UNCHANGED <<session, consumed>>
    /\ UNCHANGED <<settings, businesses, profiles, loggedOut, now, users, nextState>>

\* ------------------------------------------------------------- the token codec
\* create_access_token(data={"sub": sub}, expires_delta): the signed payload.
\* expires_delta 0 stands for None as well: both are falsy.
CreateAccessToken(sub, expires_delta) ==
    [sub |-> sub,
     exp |-> IF expires_delta # 0 THEN now + expires_delta
                                  ELSE now + ACCESS_TOKEN_EXPIRE_DAYS]

\* secure=settings.BASE_URL.startswith("https")
StartsWithHttps(url) == url \in {"https://connecthub.example", "https"}

\* A cookie without the HttpOnly attribute.
SessionCookieScriptReadable ==
    [max_age |-> SECONDS_PER_DAY * ACCESS_TOKEN_EXPIRE_DAYS, httponly |-> FALSE,
     secure |-> StartsWithHttps(settings.BASE_URL), samesite |-> "lax"]

\* max_age=60 * 60 * 24 * settings.ACCESS_TOKEN_EXPIRE_DAYS, httponly=True,
\* secure=..., samesite="lax"
SessionCookie ==
    [max_age |-> SECONDS_PER_DAY * ACCESS_TOKEN_EXPIRE_DAYS, httponly |-> TRUE,
     secure |-> StartsWithHttps(settings.BASE_URL), samesite |-> "lax"]

\* RedirectResponse("/dashboard", 302) with response.set_cookie("session_token", token, ...)
LoginRedirect(rec, token) ==
    [rec EXCEPT !.status = HTTP_302_FOUND, !.detail = "/dashboard", !.token = token,
                !.set_cookie = SessionCookie]

\* ------------------------------------------------------------ the users table
\* A row that does not record the provider.
NewOAuthUserWithoutProvider(id, rec, provider) ==
    [id |-> id, email |-> rec.email, password_hash |-> None,
     oauth_provider |-> None, oauth_id |-> Str(rec.oauth_id),
     display_name |-> rec.display_name, profile_picture_url |-> rec.profile_picture,
     last_login_at |-> rec.login_at, email_verified |-> FALSE]

\* User(email=..., oauth_provider=..., ...) with the column defaults.
NewOAuthUser(id, rec, provider) ==
    [id |-> id, email |-> rec.email, password_hash |-> None,
     oauth_provider |-> provider, oauth_id |-> Str(rec.oauth_id),
     display_name |-> rec.display_name, profile_picture_url |-> rec.profile_picture,
     last_login_at |-> rec.login_at, email_verified |-> FALSE]

\* An UPDATE that stores whatever picture the provider gave, none included.
TouchedUserOverwrite(row, rec) ==
    [row EXCEPT !.last_login_at = rec.login_at,
                !.profile_picture_url = rec.profile_picture]

\* An UPDATE that links the row to the provider that signed the user in.
TouchedUserLinked(row, rec) ==
    [row EXCEPT !.last_login_at = rec.login_at,
                !.profile_picture_url = IF Truthy(rec.profile_picture)
                                        THEN rec.profile_picture ELSE @,
                !.oauth_provider = ProviderOf(rec.kind),
                !.oauth_id = Str(rec.oauth_id)]

\* An UPDATE that also stores the name the provider gave.
TouchedUserRenamed(row, rec) ==
    [row EXCEPT !.last_login_at = rec.login_at,
                !.profile_picture_url = IF Truthy(rec.profile_picture)
                                        THEN rec.profile_picture ELSE @,
                !.display_name = rec.display_name]

\* The UPDATE a commit flushes for a user loaded by the select: last_login_at,
\* and profile_picture_url when the provider gave a picture.
TouchedUser(row, rec) ==
    [row EXCEPT !.last_login_at = rec.login_at,
                !.profile_picture_url = IF Truthy(rec.profile_picture)
                                        THEN rec.profile_picture ELSE @]

\* The select returns; the handler sets user.last_login_at = datetime.utcnow()
\* on the row found, or builds a new User, and awaits db.commit().
SelectUser(r) ==
    LET rec == reqs[r]
        match == UsersByEmail(rec.email)
    IN
    /\ rec.pc = "select"
    /\ reqs' = [reqs EXCEPT ![r] =
                  [rec EXCEPT !.pc = "commit", !.calls = @ \cup {"commit"},
                              !.found = IF match = {} THEN None ELSE CHOOSE u \in match : TRUE,
                              !.login_at = now]]
    /\ UNCHANGED <<settings, businesses, profiles, loggedOut, now, session, users, nextState, consumed>>

\* str(e) of the IntegrityError the database raises for a second row with one email.
INTEGRITY_ERROR == "UNIQUE constraint failed: users.email"

\* except Exception as e: the handler goes on with e in hand.
Caught(rec, e) == [rec EXCEPT !.exception = e]

\* A table without the UNIQUE constraint on email.
EmailNeverTaken(email) == FALSE

\* email = Column(String(255), unique=True): the INSERT of a second row with
\* the same email fails with IntegrityError.  The comparison is the database's
\* default one for strings: exact, letter case included.
EmailTaken(email) == UsersByEmail(email) # {}

\* The commit, and the rest of the handler.
CommitUser(r) ==
    LET rec == reqs[r]
        provider == ProviderOf(rec.kind)
        id == IF rec.found # None THEN rec.found ELSE NewUserId
        done == LoginRedirect([rec EXCEPT !.wrote = TRUE],
                              CreateAccessToken(Str(id), 0))
    IN
    /\ rec.pc = "commit"
    /\ IF rec.found # None
       THEN /\ users' = [users EXCEPT ![id] = TouchedUser(@, rec)]
            /\ Respond(r, [done EXCEPT !.prior = users[id]])
       ELSE IF EmailTaken(rec.email)
       THEN /\ UNCHANGED users
            /\ IF rec.kind = "google_callback"
               THEN Respond(r, HttpError(Caught(rec, INTEGRITY_ERROR),
                                         HTTP_500_INTERNAL_SERVER_ERROR,
                                         "Error saving user to database: " \o INTEGRITY_ERROR))
               ELSE Crash(r, [rec EXCEPT !.exception = INTEGRITY_ERROR])
       ELSE /\ users' = users @@ (id :> NewOAuthUser(id, rec, provider))
            /\ Respond(r, done)
    /\ UNCHANGED <<settings, businesses, profiles, loggedOut, now, nextState>>

\* ---------------------------------------------------------------- the system
\* The handlers, for the request slots R; In is what the providers answer.
Handle(R, In) ==
    \/ \E r \in R : GoogleLogin(r)
    \/ \E r \in R : MicrosoftLogin(r)
    \/ \E r \in R : GoogleCallbackStart(r)
    \/ \E r \in R : MicrosoftCallbackStart(r)
    \/ \E r \in R : GoogleTokenResponse(r, In)
    \/ \E r \in R : MicrosoftTokenResponse(r, In)
    \/ \E r \in R : GoogleUserInfoResponse(r, In)
    \/ \E r \in R : MicrosoftUserInfoResponse(r, In)
    \/ \E r \in R : SelectUser(r)
    \/ \E r \in R : CommitUser(r)

\* Any request a client can send.
Step(R, In) ==
    \/ \E r \in R : ArriveLogin(r, In)
    \/ \E r \in R : ArriveGoogleCallback(r, In)
    \/ \E r \in R : ArriveMicrosoftCallback(r, In)
    \/ Handle(R, In)

\* The handshake, one request at a time in one browser: every shape of
\* callback; the providers answer with one profile or with none.
HandshakeInputs ==
    [browsers |-> {"b1"},
     codes |-> {None, "", "code1"}, states |-> {None, "", "forged"},
     errors |-> {None, "", "access_denied"}, authErrors |-> {None, "access_denied"},
     tokens |-> TokenResponses,
     google |-> {p \in GoogleProfiles : p.email = "a@x.com" /\ p.id # None
                    /\ p.name = "Ann" /\ p.picture = None},
     microsoft |-> {p \in MicrosoftProfiles : p.mail = "a@x.com" /\ p.userPrincipalName = None
                       /\ p.id # None /\ p.displayName = "Ann" /\ p.givenName = NoKey
                       /\ p.surname = NoKey}]

Next == Tick \/ Step({1}, HandshakeInputs)

Spec == Init /\ [][Next]_vars

\* Requests in flight together, from two browsers, each callback being the one
\* the provider redirects the browser to; the providers accept every code.
RaceInputs ==
    [browsers |-> Browsers,
     tokens |-> {"access_token"},
     google |-> HandshakeInputs.google,
     microsoft |-> HandshakeInputs.microsoft]

\* The browser follows the provider's redirect back to the callback of the
\* provider it started with, carrying the state it was given.
ArriveRedirect(r) ==
    \E b \in Browsers :
        /\ session[b].state # None
        /\ Arrive(r, IF session[b].oauth_state.provider = "google"
                     THEN "google_callback" ELSE "microsoft_callback",
                  b, "code1", session[b].state, None, None)

RaceNext ==
    \/ \E r \in Reqs : ArriveLogin(r, RaceInputs)
    \/ \E r \in Reqs : ArriveRedirect(r)
    \/ Handle(Reqs, RaceInputs)

RaceSpec == Init /\ [][RaceNext]_vars

\* The providers' answers in full, for callbacks that carry a code and no
\* error, one at a time in one browser.
ProfileInputs ==
    [browsers |-> {"b1"},
     codes |-> {"code1"}, states |-> {},
     errors |-> {None}, authErrors |-> {None},
     tokens |-> TokenResponses,
     google |-> {p \in GoogleProfiles : p.email # "b@x.com"},
     microsoft |-> {p \in MicrosoftProfiles :
                       p.mail # "b@x.com" /\ p.userPrincipalName # "b@x.com"}]

ProfileNext == Tick \/ Step({1}, ProfileInputs)

ProfileSpec == Init /\ [][ProfileNext]_vars

\* ======================================================= the credential forms
\* POST /auth/register and POST /auth/login.
MIN_PASSWORD_LENGTH == 8

\* len(password) on the passwords of the model
PasswordLength(p) ==
    CASE p = "1234567" -> 7
      [] p = "12345678" -> 8
      [] p = "abcdefgh" -> 8
      [] OTHER -> 0

\* hash(password): a one-way digest of the password.
HashPassword(p) == "hash(" \o p \o ")"
\* verify(password, hash): true of the password that was hashed, false of
\* every other.
VerifyPassword(p, h) == h = HashPassword(p)

FormKinds == {"register", "login"}

\* form = await request.form(): a field that was not posted reads as None.
ArriveForm(r, k, b, email, password, display_name) ==
    /\ Free(r)
    /\ \A q \in Reqs : (q < r) => ~Free(q)
    /\ reqs' = [reqs EXCEPT ![r] =
                  [IdleReq EXCEPT !.pc = "recv", !.kind = k, !.browser = b,
                                  !.email = email, !.password = password,
                                  !.form_display_name = display_name,
                                  !.loaded = session[b], !.sess = session[b],
                                  !.seen = UserIds]]
    /\ UNCHANGED <<settings, businesses, profiles, loggedOut, now, session, users, nextState, consumed>>

ArriveRegister(r, In) ==
    \E b \in In.browsers, e \in In.form_emails, p \in In.passwords,
       d \in In.display_names :
        ArriveForm(r, "register", b, e, p, d)

ArrivePasswordLogin(r, In) ==
    \E b \in In.browsers, e \in In.form_emails, p \in In.passwords :
        ArriveForm(r, "login", b, e, p, None)

\* render_template("auth/login.html", request, error_message=...)
LoginView(rec, msg) ==
    [rec EXCEPT !.status = HTTP_200_OK, !.detail = "auth/login.html",
                !.error_message = msg]

\* db.execute(select(User).where(User.email == email)) is sent and awaited.
FormSelect(rec) == [rec EXCEPT !.pc = "form_select", !.calls = @ \cup {"select"}]

\* A policy of seven characters.
WeakPasswordBelowSeven(p) == PasswordLength(p) < 7

\* len(password) < 8
WeakPassword(p) == PasswordLength(p) < MIN_PASSWORD_LENGTH

\* --------------------------------------------------------- POST /auth/register
\* form.get("display_name") or email.split("@")[0] is evaluated first, outside
\* the try block: AttributeError when both fields are missing.
RegisterDisplayNameRaises(rec) == ~Truthy(rec.form_display_name) /\ rec.email = None

RegisterStart(r) ==
    LET rec == reqs[r] IN
    /\ rec.pc = "recv" /\ rec.kind = "register"
    /\ IF RegisterDisplayNameRaises(rec)
       THEN Crash(r, rec)
       ELSE LET got == [rec EXCEPT !.display_name =
                                     Or(rec.form_display_name, LocalPart(rec.email))]
            IN
            IF ~Truthy(got.email) \/ ~Truthy(got.password)
            THEN Respond(r, LoginView(got, "Email and password are required"))
            ELSE IF WeakPassword(got.password)
            THEN Respond(r, LoginView(got, "Password must be at least 8 characters long"))
            ELSE /\ reqs' = [reqs EXCEPT ![r] = FormSelect(got)]
                 /\ UNCHANGED <<session, consumed>>
    /\ UNCHANGED <<settings, businesses, profiles, loggedOut, now, users, nextState>>

\* A registration that marks the address as verified.
NewPasswordUserVerified(id, rec) ==
    [id |-> id, email |-> rec.email, password_hash |-> HashPassword(rec.password),
     oauth_provider |-> None, oauth_id |-> None,
     display_name |-> rec.display_name, profile_picture_url |-> None,
     last_login_at |-> rec.login_at, email_verified |-> TRUE]

\* User(email=email, password_hash=password_hashed, ..., oauth_provider=None,
\* email_verified=False)
NewPasswordUser(id, rec) ==
    [id |-> id, email |-> rec.email, password_hash |-> HashPassword(rec.password),
     oauth_provider |-> None, oauth_id |-> None,
     display_name |-> rec.display_name, profile_picture_url |-> None,
     last_login_at |-> rec.login_at, email_verified |-> FALSE]

\* The select returns: an existing user ends the registration; otherwise the
\* password is hashed, the User is built and db.commit() is awaited.
RegisterSelect(r) ==
    LET rec == reqs[r] IN
    /\ rec.pc = "form_select" /\ rec.kind = "register"
    /\ IF UsersByEmail(rec.email) # {}
       THEN Respond(r, LoginView(rec,
                "An account with this email already exists. Please sign in instead."))
       ELSE /\ reqs' = [reqs EXCEPT ![r] =
                          [rec EXCEPT !.pc = "form_commit",
                                      !.calls = @ \cup {"hash", "commit"},
                                      !.login_at = now]]
            /\ UNCHANGED <<session, consumed>>
    /\ UNCHANGED <<settings, businesses, profiles, loggedOut, now, users, nextState>>

\* The commit.  An IntegrityError is caught by `except Exception`, which
\* renders the login view.
RegisterCommit(r) ==
    LET rec == reqs[r]
        id == NewUserId
    IN
    /\ rec.pc = "form_commit" /\ rec.kind = "register"
    /\ IF EmailTaken(rec.email)
       THEN /\ UNCHANGED users
            /\ Respond(r, LoginView(Caught(rec, INTEGRITY_ERROR),
                                     "Registration failed: " \o INTEGRITY_ERROR))
       ELSE /\ users' = users @@ (id :> NewPasswordUser(id, rec))
            /\ Respond(r, LoginRedirect([rec EXCEPT !.wrote = TRUE, !.found = id],
                                        CreateAccessToken(Str(id), 0)))
    /\ UNCHANGED <<settings, businesses, profiles, loggedOut, now, nextState>>

\* ------------------------------------------------------------ POST /auth/login
LoginStart(r) ==
    LET rec == reqs[r] IN
    /\ rec.pc = "recv" /\ rec.kind = "login"
    /\ IF ~Truthy(rec.email) \/ ~Truthy(rec.password)
       THEN Respond(r, LoginView(rec, "Email and password are required"))
       ELSE /\ reqs' = [reqs EXCEPT ![r] = FormSelect(rec)]
            /\ UNCHANGED <<session, consumed>>
    /\ UNCHANGED <<settings, businesses, profiles, loggedOut, now, users, nextState>>

NOT_FOUND == "No account found with this email. Please register first."
BAD_CREDENTIALS == "Incorrect password. Please try again."
\* f"This email is registered with {user.oauth_provider}. ..."
WrongMethod(provider) == "This email is registered with " \o provider

\* The password is tested before the way the account was registered.
LoginErrorPasswordFirst(found, password) ==
    IF found = None THEN NOT_FOUND
    ELSE IF ~Truthy(users[found].password_hash)
            \/ ~VerifyPassword(password, users[found].password_hash)
    THEN BAD_CREDENTIALS
    ELSE IF Truthy(users[found].oauth_provider)
    THEN WrongMethod(users[found].oauth_provider)
    ELSE None

\* The password is not verified.
LoginErrorNoVerify(found, password) ==
    IF found = None THEN NOT_FOUND
    ELSE IF Truthy(users[found].oauth_provider)
    THEN WrongMethod(users[found].oauth_provider)
    ELSE None

\* The three checks on the user the select returned, in the handler's order;
\* None when the login goes through.
LoginError(found, password) ==
    IF found = None THEN NOT_FOUND
    ELSE IF Truthy(users[found].oauth_provider)
    THEN WrongMethod(users[found].oauth_provider)
    ELSE IF ~Truthy(users[found].password_hash)
            \/ ~VerifyPassword(password, users[found].password_hash)
    THEN BAD_CREDENTIALS
    ELSE None

LoginSelect(r) ==
    LET rec == reqs[r]
        match == UsersByEmail(rec.email)
        found == IF match = {} THEN None ELSE CHOOSE u \in match : TRUE
        err == LoginError(found, rec.password)
        got == [rec EXCEPT !.found = found]
    IN
    /\ rec.pc = "form_select" /\ rec.kind = "login"
    /\ IF err # None
       THEN Respond(r, LoginView(got, err))
       ELSE /\ reqs' = [reqs EXCEPT ![r] =
                          [got EXCEPT !.pc = "form_commit", !.calls = @ \cup {"commit"},
                                      !.login_at = now]]
            /\ UNCHANGED <<session, consumed>>
    /\ UNCHANGED <<settings, businesses, profiles, loggedOut, now, users, nextState>>

\* A login that leaves last_login_at as it was.
LoginCommitWithoutTouch(r) ==
    LET rec == reqs[r] IN
    /\ rec.pc = "form_commit" /\ rec.kind = "login"
    /\ UNCHANGED users
    /\ Respond(r, LoginRedirect([rec EXCEPT !.wrote = TRUE, !.prior = users[rec.found]],
                                CreateAccessToken(Str(rec.found), 0)))
    /\ UNCHANGED <<settings, businesses, profiles, loggedOut, now, nextState>>

\* user.last_login_at = datetime.utcnow(); await db.commit(); the cookie.
LoginCommit(r) ==
    LET rec == reqs[r] IN
    /\ rec.pc = "form_commit" /\ rec.kind = "login"
    /\ users' = [users EXCEPT ![rec.found].last_login_at = rec.login_at]
    /\ Respond(r, LoginRedirect([rec EXCEPT !.wrote = TRUE, !.prior = users[rec.found]],
                                CreateAccessToken(Str(rec.found), 0)))
    /\ UNCHANGED <<settings, businesses, profiles, loggedOut, now, nextState>>

HandleForm(R) ==
    \/ \E r \in R : RegisterStart(r)
    \/ \E r \in R : RegisterSelect(r)
    \/ \E r \in R : RegisterCommit(r)
    \/ \E r \in R : LoginStart(r)
    \/ \E r \in R : LoginSelect(r)
    \/ \E r \in R : LoginCommit(r)

\* Accounts, one request at a time in one browser: the two forms with every
\* shape of field, and google sign-ins of one address (a google callback needs
\* no stored state to go through).
AccountInputs ==
    [browsers |-> {"b1"},
     codes |-> {"code1"}, states |-> {None},
     errors |-> {None}, authErrors |-> {None},
     tokens |-> {"access_token"},
     google |-> HandshakeInputs.google,
     form_emails |-> {None, "", "a@x.com", "A@x.com"},
     passwords |-> {None, "", "1234567", "12345678", "abcdefgh"},
     display_names |-> {None, "Ann"}]

AccountNext ==
    \/ Tick
    \/ \E r \in {1} : ArriveRegister(r, AccountInputs)
    \/ \E r \in {1} : ArrivePasswordLogin(r, AccountInputs)
    \/ \E r \in {1} : ArriveGoogleCallback(r, AccountInputs)
    \/ \E r \in {1} : GoogleCallbackStart(r)
    \/ \E r \in {1} : GoogleTokenResponse(r, AccountInputs)
    \/ \E r \in {1} : GoogleUserInfoResponse(r, AccountInputs)
    \/ \E r \in {1} : SelectUser(r)
    \/ \E r \in {1} : CommitUser(r)
    \/ HandleForm({1})

AccountSpec == Init /\ [][AccountNext]_vars

\* Sign-ins (from two browsers) and registrations of one address in flight
\* together.  The form handlers do not read the session: one browser posts.
AccountRaceInputs ==
    [browsers |-> {"b1"},
     form_emails |-> {"a@x.com"}, passwords |-> {"12345678"},
     display_names |-> {None}]

RegisterRaceNext ==
    \/ RaceNext
    \/ \E r \in Reqs : ArriveRegister(r, AccountRaceInputs)
    \/ \E r \in Reqs : RegisterStart(r)
    \/ \E r \in Reqs : RegisterSelect(r)
    \/ \E r \in Reqs : RegisterCommit(r)

RegisterRaceSpec == Init /\ [][RegisterRaceNext]_vars

\* The same while the clock runs.
AccountRaceNext == Tick \/ RegisterRaceNext

AccountRaceSpec == Init /\ [][AccountRaceNext]_vars

\* ============================================================ the token codec
\* src/app/utils/auth.py, on the jwt package (PyJWT 2: encode returns the str
\* the handlers put in the cookie).
HTTP_401_UNAUTHORIZED == 401
MaxTtl == 2         \* expires_delta runs over 0..MaxTtl (days)

\* pyjwt.encode(to_encode, SECRET_KEY, algorithm): the artifact of a payload.
Encoded(token) == [sub |-> token.sub, exp |-> token.exp, sig |-> "valid"]

\* An expiry check that still accepts the instant of expiry itself.
JwtExpiredAfter(exp, t) == exp < t

\* jwt's check of the exp claim: `if exp <= now: raise ExpiredSignatureError`.
JwtExpired(exp, t) == exp <= t

\* What a call returns or raises: kind "payload" (returned), "http" (an
\* HTTPException with status and detail) or "raise" (another exception, named
\* in detail).
Returned(payload) ==
    [kind |-> "payload", status |-> 0, detail |-> None, payload |-> payload]
Raised(st, msg) ==
    [kind |-> IF st = 0 THEN "raise" ELSE "http", status |-> st, detail |-> msg,
     payload |-> NoToken]

\* decode_access_token(token).  pyjwt.decode verifies the signature, then the
\* exp claim.  ExpiredSignatureError is turned into 401.  For every other
\* error of pyjwt.decode the second except clause is evaluated: the jwt
\* package has no attribute JWTError, so the clause raises AttributeError.
DecodeAccessToken(a) ==
    IF a.sig # "valid"
    THEN Raised(0, "AttributeError")
    ELSE IF JwtExpired(a.exp, now)
    THEN Raised(HTTP_401_UNAUTHORIZED, "Token has expired")
    ELSE Returned([sub |-> a.sub, exp |-> a.exp])

\* The codec called directly: slot 1 holds the last artifact minted, slot 2
\* the last decoding of it or of a text made from it.
Subjects == {"u1", "u2"}

CallCreate ==
    \E sub \in Subjects, expires_delta \in 0..MaxTtl :
        /\ reqs' = [reqs EXCEPT
                      ![1] = [IdleReq EXCEPT !.pc = "done", !.kind = "create_access_token",
                                             !.login_at = now,
                                             !.expires_delta = expires_delta,
                                             !.token = CreateAccessToken(sub, expires_delta)],
                      ![2] = IdleReq]
        /\ UNCHANGED <<settings, businesses, profiles, loggedOut, now, session, users,
                       nextState, consumed>>

\* The texts a client can make of an artifact it holds.
Presentable(token) ==
    {Encoded(token), [Encoded(token) EXCEPT !.sig = "tampered"],
     [Encoded(token) EXCEPT !.sub = "u9", !.sig = "tampered"], Malformed}

CallDecode ==
    /\ reqs[1].kind = "create_access_token"
    /\ \E a \in Presentable(reqs[1].token) :
         LET out == DecodeAccessToken(a) IN
         reqs' = [reqs EXCEPT
                    ![2] = [IdleReq EXCEPT !.pc = "done", !.kind = "decode_access_token",
                                           !.cookie = a, !.login_at = now,
                                           !.status = out.status, !.detail = out.detail,
                                           !.error_message = out.kind,
                                           !.payload = out.payload]]
    /\ UNCHANGED <<settings, businesses, profiles, loggedOut, now, session, users,
                   nextState, consumed>>

\* The clock, past the longest expiry.
CodecTick ==
    /\ now <= MaxTtl
    /\ now' = now + 1
    /\ UNCHANGED <<settings, businesses, profiles, loggedOut, session, users, nextState,
                   reqs, consumed>>

CodecNext == CodecTick \/ CallCreate \/ CallDecode

CodecSpec == Init /\ [][CodecNext]_vars

\* ================================================== identity of a request
\* src/app/utils/auth.py get_current_user and require_auth,
\* src/app/middleware.py UserContextMiddleware.
HTTP_403_FORBIDDEN == 403
HTTP_404_NOT_FOUND == 404

\* A lookup that treats the subject of an artifact a logout carried as unknown.
LookupUserUnlessLoggedOut(sub) ==
    IF sub \in UserIds /\ \A out \in loggedOut : out.cookie.sub # sub THEN sub ELSE None

\* db.execute(select(User).where(User.id == user_id)).scalar_one_or_none()
LookupUser(sub) == IF sub \in UserIds THEN sub ELSE None

\* What get_current_user returns (kind "user": a user id or None; via: the
\* channel the user came from) or raises (kind "http" or "raise").
Resolved(user, via) ==
    [kind |-> "user", user |-> user, via |-> IF user = None THEN None ELSE via,
     status |-> 0, detail |-> None]
Propagated(out) ==
    [kind |-> out.kind, user |-> None, via |-> None,
     status |-> out.status, detail |-> out.detail]

\* Lines 95-124: the session_token cookie.  Every exception is caught.
FromCookie(rec) ==
    LET session_token == rec.cookie
        out == DecodeAccessToken(session_token)
    IN
    IF session_token = NoArtifact THEN Resolved(None, None)
    ELSE IF out.kind # "payload" THEN Resolved(None, None)
    ELSE IF ~Truthy(out.payload.sub) THEN Resolved(None, None)
    ELSE Resolved(LookupUser(Str(out.payload.sub)), "cookie")

\* scheme, token = authorization.split() succeeded and scheme.lower() == "bearer"
IsBearer(h) == h.words = 2 /\ h.scheme \in {"Bearer", "bearer"}

\* Lines 80-93: the Authorization header.  Only ValueError (the header is not
\* two words) is caught: what decode_access_token raises leaves the function.
FromHeader(rec) ==
    LET h == rec.authorization
        out == DecodeAccessToken(h.token)
    IN
    IF ~IsBearer(h) THEN Resolved(None, None)
    ELSE IF out.kind # "payload" THEN Propagated(out)
    ELSE IF Truthy(out.payload.sub) THEN Resolved(LookupUser(out.payload.sub), "header")
    ELSE Resolved(None, None)

\* The header returns from the function when it is a Bearer header whose
\* artifact decodes to a payload with a subject, or raises.
HeaderDecides(rec) ==
    LET h == rec.authorization
        out == DecodeAccessToken(h.token)
    IN IsBearer(h) /\ (out.kind # "payload" \/ Truthy(out.payload.sub))

\* A resolution that reads the cookie first.
GetCurrentUserCookieFirst(rec) ==
    IF FromCookie(rec).user # None THEN FromCookie(rec)
    ELSE FromHeader(rec)

\* get_current_user(request, db)
GetCurrentUser(rec) ==
    IF HeaderDecides(rec) THEN FromHeader(rec) ELSE FromCookie(rec)

\* A middleware that lets what is no HTTPException through.
SwallowedHttpOnly(res) == res.kind # "raise"

\* UserContextMiddleware.dispatch: `except Exception` around the resolution.
Swallowed(res) == TRUE

GateKinds ==
    {"create_business", "update_business", "delete_business",
     "create_or_update_profile", "delete_profile",
     "business_detail", "profile_detail", "logout"}

\* UserContextMiddleware.dispatch up to call_next(request).
UserContext(r) ==
    LET rec == reqs[r]
        res == GetCurrentUser(rec)
    IN
    /\ rec.pc = "recv" /\ rec.kind \in GateKinds
    /\ IF res.kind # "user" /\ ~Swallowed(res)
       THEN Crash(r, rec)
       ELSE /\ reqs' = [reqs EXCEPT ![r] =
                          [rec EXCEPT !.pc = "route",
                                      !.user = IF res.kind = "user" THEN res.user ELSE None]]
            /\ UNCHANGED <<session, consumed>>
    /\ UNCHANGED <<settings, businesses, profiles, loggedOut, now, users, nextState>>

\* A gate that lets a request through as the first user of the table when
\* no identity is resolved.
RequireAuthDefaultUser(rec) ==
    LET res == GetCurrentUser(rec) IN
    IF res.kind = "user" /\ res.user = None /\ UserIds # {}
    THEN Resolved(CHOOSE u \in UserIds : TRUE, "cookie")
    ELSE res

\* require_auth(request, db): 401 when get_current_user returns None.
RequireAuth(rec) ==
    LET res == GetCurrentUser(rec) IN
    IF res.kind = "user" /\ res.user = None
    THEN [res EXCEPT !.kind = "http", !.status = HTTP_401_UNAUTHORIZED,
                     !.detail = "Authentication required"]
    ELSE res

\* The dependency failed: the HTTPException is answered, any other exception
\* is a 500.
Reject(r, rec, res) ==
    IF res.kind = "raise" THEN Crash(r, rec)
    ELSE Respond(r, HttpError(rec, res.status, res.detail))

\* ============================================ businesses and profiles
\* src/app/routes/business.py, src/app/routes/profile.py.
MaxRows == 1        \* rows a table holds at most
MaxViews == 1       \* views counted per row at most
MaxLogouts == 1     \* logouts in one behaviour

BusinessIds == {"biz" \o ToString(n) : n \in 1..(MaxRows + 1)}
ProfileIds == {"prof" \o ToString(n) : n \in 1..(MaxRows + 1)}
\* uuid_default(): an id no row has
NewBusinessId == CHOOSE id \in BusinessIds : id \notin DOMAIN businesses
NewProfileId == CHOOSE id \in ProfileIds : id \notin DOMAIN profiles

\* A request of one of the routes below arrives: its credentials, the row it
\* names (the path parameter), the name it posts and whether its form passes
\* the validation of the handler.
ArriveGate(r, k, b, authorization, cookie, target, name, valid) ==
    /\ Free(r)
    /\ \A q \in Reqs : (q < r) => ~Free(q)
    /\ k = "create_business" => Cardinality(DOMAIN businesses) < MaxRows
    /\ k = "create_or_update_profile" =>
          \/ Cardinality(DOMAIN profiles) < MaxRows
          \/ \E p \in DOMAIN profiles :
                profiles[p].user_id \in {cookie.sub, authorization.token.sub}
    /\ k = "logout" => Cardinality(loggedOut) < MaxLogouts
    /\ k = "business_detail" =>
          (target \in DOMAIN businesses => businesses[target].view_count < MaxViews)
    /\ k = "profile_detail" =>
          (target \in DOMAIN profiles => profiles[target].view_count < MaxViews)
    /\ reqs' = [reqs EXCEPT ![r] =
                  [IdleReq EXCEPT !.pc = "recv", !.kind = k, !.browser = b,
                                  !.authorization = authorization, !.cookie = cookie,
                                  !.target = target, !.form_display_name = name,
                                  !.valid = valid,
                                  !.loaded = session[b], !.sess = session[b]]]
    /\ UNCHANGED <<settings, businesses, profiles, loggedOut, now, session, users,
                   nextState, consumed>>

\* generate_slug(text): lower case, hyphens for spaces, on the names posted here
GenerateSlug(text) ==
    CASE text = "Acme" -> "acme"
      [] text = "Bolt" -> "bolt"
      [] OTHER -> text

\* The loop that ends on the first of base, base-1, base-2, ... that no other
\* row has (self: the row being updated, None on creation).
SlugFor(name, self) ==
    LET base == GenerateSlug(name)
        taken == {businesses[k].slug : k \in (DOMAIN businesses) \ {self}}
        free == {n \in 1..(MaxRows + 1) : (base \o "-" \o ToString(n)) \notin taken}
    IN
    IF base \notin taken THEN base
    ELSE base \o "-" \o ToString(CHOOSE n \in free : \A m \in free : n <= m)

\* save_uploaded_file(logo, "logos"): the URL of the stored file
SaveUploadedFile(id) == "/uploads/logos/" \o id

\* Business(user_id=..., business_name=..., slug=..., logo_url=...,
\* is_published=True), view_count 0; the form comes with a logo.
NewBusiness(id, user, name) ==
    [id |-> id, user_id |-> user, business_name |-> name,
     slug |-> SlugFor(name, None), logo_url |-> SaveUploadedFile(id),
     is_published |-> TRUE, view_count |-> 0]

\* ProfessionalProfile(user_id=..., full_name=..., is_published=True)
NewProfile(id, user, name) ==
    [id |-> id, user_id |-> user, full_name |-> name,
     is_published |-> TRUE, view_count |-> 0]

\* POST /dashboard/business
CreateBusiness(r) ==
    LET rec == reqs[r]
        res == RequireAuth(rec)
        id == NewBusinessId
        got == [rec EXCEPT !.auth_user = res.user]
    IN
    /\ rec.pc = "route" /\ rec.kind = "create_business"
    /\ IF res.kind # "user"
       THEN Reject(r, rec, res) /\ UNCHANGED businesses
       ELSE IF ~rec.valid
       THEN /\ Respond(r, HttpError(got, HTTP_400_BAD_REQUEST, "Invalid form"))
            /\ UNCHANGED businesses
       ELSE /\ businesses' = businesses @@
                   (id :> NewBusiness(id, Str(res.user), rec.form_display_name))
            /\ Respond(r, Redirect([got EXCEPT !.wrote = TRUE,
                                               !.calls = @ \cup {"save_uploaded_file"}],
                                   HTTP_302_FOUND, "/business/slug"))
    /\ UNCHANGED <<settings, profiles, loggedOut, now, users, nextState>>

\* A check that guards unpublished rows only.
NotOwnerOfUnpublished(row, user) == Str(row.user_id) # Str(user) /\ ~row.is_published

\* business_user_id != user_id_str
NotOwner(row, user) == Str(row.user_id) # Str(user)

\* POST /dashboard/business/{business_id} (without an uploaded image)
UpdateBusiness(r) ==
    LET rec == reqs[r]
        res == RequireAuth(rec)
        got == [rec EXCEPT !.auth_user = res.user]
    IN
    /\ rec.pc = "route" /\ rec.kind = "update_business"
    /\ IF res.kind # "user"
       THEN Reject(r, rec, res) /\ UNCHANGED businesses
       ELSE IF rec.target \notin DOMAIN businesses
       THEN /\ Respond(r, HttpError(got, HTTP_404_NOT_FOUND, "Business not found"))
            /\ UNCHANGED businesses
       ELSE IF NotOwner(businesses[rec.target], res.user)
       THEN /\ Respond(r, HttpError(got, HTTP_403_FORBIDDEN,
                                    "Not authorized to edit this business"))
            /\ UNCHANGED businesses
       ELSE IF ~rec.valid
       THEN /\ Respond(r, HttpError(got, HTTP_400_BAD_REQUEST, "Invalid form"))
            /\ UNCHANGED businesses
       ELSE /\ businesses' = [businesses EXCEPT
                                ![rec.target].business_name = rec.form_display_name,
                                ![rec.target].slug =
                                    IF businesses[rec.target].business_name
                                         # rec.form_display_name
                                    THEN SlugFor(rec.form_display_name, rec.target)
                                    ELSE @]
            /\ Respond(r, Redirect([got EXCEPT !.wrote = TRUE], HTTP_302_FOUND, "/business/slug"))
    /\ UNCHANGED <<settings, profiles, loggedOut, now, users, nextState>>

\* if logo_url_to_delete: await delete_file(logo_url_to_delete)
DeleteFile(row) == IF Truthy(row.logo_url) THEN {"delete_file"} ELSE {}

\* DELETE FROM businesses WHERE id = ...
Without(table, id) == [k \in DOMAIN table \ {id} |-> table[k]]

\* POST /dashboard/business/{business_id}/delete
DeleteBusiness(r) ==
    LET rec == reqs[r]
        res == RequireAuth(rec)
        got == [rec EXCEPT !.auth_user = res.user]
    IN
    /\ rec.pc = "route" /\ rec.kind = "delete_business"
    /\ IF res.kind # "user"
       THEN Reject(r, rec, res) /\ UNCHANGED businesses
       ELSE IF rec.target \notin DOMAIN businesses
       THEN /\ Respond(r, HttpError(got, HTTP_404_NOT_FOUND, "Business not found"))
            /\ UNCHANGED businesses
       ELSE IF NotOwner(businesses[rec.target], res.user)
       THEN /\ Respond(r, HttpError(got, HTTP_403_FORBIDDEN,
                                    "Not authorized to delete this business"))
            /\ UNCHANGED businesses
       ELSE /\ businesses' = Without(businesses, rec.target)
            /\ Respond(r, Redirect([got EXCEPT !.wrote = TRUE,
                                               !.calls = @ \cup DeleteFile(businesses[rec.target])],
                                   HTTP_302_FOUND, "/dashboard"))
    /\ UNCHANGED <<settings, profiles, loggedOut, now, users, nextState>>

\* select(ProfessionalProfile).where(ProfessionalProfile.user_id == user_id_str)
ProfilesOf(user) == {p \in DOMAIN profiles : profiles[p].user_id = Str(user)}

\* POST /dashboard/profile (without an uploaded picture)
CreateOrUpdateProfile(r) ==
    LET rec == reqs[r]
        res == RequireAuth(rec)
        got == [rec EXCEPT !.auth_user = res.user]
        mine == ProfilesOf(res.user)
        id == NewProfileId
    IN
    /\ rec.pc = "route" /\ rec.kind = "create_or_update_profile"
    /\ IF res.kind # "user"
       THEN Reject(r, rec, res) /\ UNCHANGED profiles
       ELSE IF ~rec.valid
       THEN /\ Respond(r, HttpError(got, HTTP_400_BAD_REQUEST, "Invalid form"))
            /\ UNCHANGED profiles
       ELSE IF mine # {}
       THEN /\ profiles' = [profiles EXCEPT
                              ![CHOOSE p \in mine : TRUE].full_name = rec.form_display_name]
            /\ Respond(r, Redirect([got EXCEPT !.wrote = TRUE], HTTP_302_FOUND, "/profile/slug"))
       ELSE /\ profiles' = profiles @@
                   (id :> NewProfile(id, Str(res.user), rec.form_display_name))
            /\ Respond(r, Redirect([got EXCEPT !.wrote = TRUE], HTTP_302_FOUND, "/profile/slug"))
    /\ UNCHANGED <<settings, businesses, loggedOut, now, users, nextState>>

\* POST /dashboard/profile/delete
DeleteProfile(r) ==
    LET rec == reqs[r]
        res == RequireAuth(rec)
        got == [rec EXCEPT !.auth_user = res.user]
        mine == ProfilesOf(res.user)
    IN
    /\ rec.pc = "route" /\ rec.kind = "delete_profile"
    /\ IF res.kind # "user"
       THEN Reject(r, rec, res) /\ UNCHANGED profiles
       ELSE IF mine = {}
       THEN /\ Respond(r, HttpError(got, HTTP_404_NOT_FOUND, "Profile not found"))
            /\ UNCHANGED profiles
       ELSE /\ profiles' = Without(profiles, CHOOSE p \in mine : TRUE)
            /\ Respond(r, Redirect([got EXCEPT !.wrote = TRUE], HTTP_302_FOUND, "/dashboard"))
    /\ UNCHANGED <<settings, businesses, loggedOut, now, users, nextState>>

\* increment_view_count(model_instance)
IncrementViewCount(row) == [row EXCEPT !.view_count = @ + 1]

\* GET /business/{slug} and GET /profile/{slug}: no gate; the row is found by
\* its slug, its view count incremented and committed, the page rendered.
Detail(r, k, table, page) ==
    LET rec == reqs[r] IN
    /\ rec.pc = "route" /\ rec.kind = k
    /\ IF rec.target \notin DOMAIN table \/ ~table[rec.target].is_published
       THEN Respond(r, HttpError(rec, HTTP_404_NOT_FOUND, "Not found"))
       ELSE Respond(r, [rec EXCEPT !.wrote = TRUE, !.status = HTTP_200_OK, !.detail = page])

BusinessDetail(r) ==
    /\ Detail(r, "business_detail", businesses, "businesses/detail.html")
    /\ businesses' = IF reqs'[r].wrote
                     THEN [businesses EXCEPT ![reqs[r].target] = IncrementViewCount(@)]
                     ELSE businesses
    /\ UNCHANGED <<settings, profiles, loggedOut, now, users, nextState>>

ProfileDetail(r) ==
    /\ Detail(r, "profile_detail", profiles, "profiles/detail.html")
    /\ profiles' = IF reqs'[r].wrote
                   THEN [profiles EXCEPT ![reqs[r].target] = IncrementViewCount(@)]
                   ELSE profiles
    /\ UNCHANGED <<settings, businesses, loggedOut, now, users, nextState>>

\* ---------------------------------------------------------- GET /auth/logout
\* request.session.clear(); RedirectResponse("/", 302); delete_cookie
Logout(r) ==
    LET rec == reqs[r] IN
    /\ rec.pc = "route" /\ rec.kind = "logout"
    /\ Respond(r, [Redirect(rec, HTTP_302_FOUND, "/") EXCEPT
                      !.sess = EmptySession, !.delete_cookie = TRUE])
    /\ loggedOut' = loggedOut \cup
           {[browser |-> rec.browser, state |-> rec.sess.state,
             cookie |-> rec.cookie, authorization |-> rec.authorization]}
    /\ UNCHANGED <<settings, businesses, profiles, now, users, nextState>>

\* ------------------------------------------------ the slices of these routes
\* A deployment in use: one account registered with a password, one created by
\* a Google sign-in, as the register and callback routes leave them.
RegisteredUsers ==
    ("u1" :> NewPasswordUser("u1", [IdleReq EXCEPT !.email = "a@x.com", !.password = "12345678",
                                                   !.display_name = "a", !.login_at = 0]))
    @@ ("u2" :> NewOAuthUser("u2", [IdleReq EXCEPT !.email = "b@x.com", !.oauth_id = "g-1",
                                                   !.display_name = "Ann", !.login_at = 0],
                             "google"))

InUse ==
    /\ settings \in Configs
    /\ now = 0
    /\ session = [b \in Browsers |-> EmptySession]
    /\ users = RegisteredUsers
    /\ nextState = 1
    /\ reqs = [r \in Reqs |-> IdleReq]
    /\ consumed = {}
    /\ businesses = <<>>
    /\ profiles = <<>>
    /\ loggedOut = {}

\* Artifacts in clients' hands: minted by a sign-in (a day, or 30 days, before
\* they expire), minted for a user whose row is gone since ("u0"), altered, or
\* no JWT.
Signed(sub, exp) == [sub |-> sub, exp |-> exp, sig |-> "valid"]
Artifacts ==
    {Signed("u1", ACCESS_TOKEN_EXPIRE_DAYS), Signed("u2", ACCESS_TOKEN_EXPIRE_DAYS),
     Signed("u1", 1), Signed("u0", ACCESS_TOKEN_EXPIRE_DAYS),
     [Signed("u2", ACCESS_TOKEN_EXPIRE_DAYS) EXCEPT !.sig = "tampered"], Malformed}
Bearer(a) == [words |-> 2, scheme |-> "Bearer", token |-> a]
Headers ==
    {NoHeader} \cup {Bearer(a) : a \in Artifacts}
    \cup {[words |-> 1, scheme |-> "Bearer", token |-> NoArtifact],
          [words |-> 2, scheme |-> "Basic", token |-> Signed("u1", ACCESS_TOKEN_EXPIRE_DAYS)],
          [words |-> 2, scheme |-> "bearer", token |-> Signed("u1", ACCESS_TOKEN_EXPIRE_DAYS)]}
Cookies == {NoArtifact} \cup Artifacts

\* Every credential on one gated route; a browser's logout, with any cookie.
ArriveIdentity(r) ==
    \/ \E h \in Headers, c \in Cookies :
          ArriveGate(r, "create_business", "b1", h, c, None, "Acme", TRUE)
    \/ \E c \in Cookies :
          ArriveGate(r, "logout", "b1", NoHeader, c, None, None, FALSE)

IdentityNext ==
    \/ Tick
    \/ ArriveIdentity(1)
    \/ UserContext(1)
    \/ CreateBusiness(1)
    \/ Logout(1)

IdentitySpec == InUse /\ [][IdentityNext]_vars

\* Every route of the two tables, one request at a time: without credentials,
\* with the cookie of either user, or with a Bearer header that is no JWT.
RecordCookies ==
    {NoArtifact, Signed("u1", ACCESS_TOKEN_EXPIRE_DAYS), Signed("u2", ACCESS_TOKEN_EXPIRE_DAYS)}
RecordHeaders == {NoHeader, Bearer(Malformed)}
Names == {"Acme", "Bolt"}

ArriveRecords(r) ==
    \E h \in RecordHeaders : \E c \in {k \in RecordCookies : k = NoArtifact \/ h = NoHeader} :
        \/ \E name \in Names, valid \in BOOLEAN :
             /\ valid \/ name = "Acme"
             /\ \/ ArriveGate(r, "create_business", "b1", h, c, None, name, valid)
                \/ ArriveGate(r, "update_business", "b1", h, c, "biz1", name, valid)
                \/ ArriveGate(r, "create_or_update_profile", "b1", h, c, None, name, valid)
        \/ ArriveGate(r, "delete_business", "b1", h, c, "biz1", None, FALSE)
        \/ ArriveGate(r, "delete_profile", "b1", h, c, None, None, FALSE)
        \/ ArriveGate(r, "business_detail", "b1", h, c, "biz1", None, FALSE)
        \/ ArriveGate(r, "profile_detail", "b1", h, c, "prof1", None, FALSE)

RecordsNext ==
    \/ ArriveRecords(1)
    \/ UserContext(1)
    \/ CreateBusiness(1)
    \/ UpdateBusiness(1)
    \/ DeleteBusiness(1)
    \/ CreateOrUpdateProfile(1)
    \/ DeleteProfile(1)
    \/ BusinessDetail(1)
    \/ ProfileDetail(1)

RecordsSpec == InUse /\ [][RecordsNext]_vars

\* Sign-ins started, logged out of and called back, one request at a time in
\* one browser; each callback carries a state the server issued, and the
\* providers accept every code.
LogoutInputs ==
    [browsers |-> {"b1"},
     codes |-> {"code1"}, states |-> {},
     errors |-> {None}, authErrors |-> {None},
     tokens |-> {"access_token"},
     google |-> HandshakeInputs.google,
     microsoft |-> HandshakeInputs.microsoft]

ArriveLogout(r, In) ==
    \E b \in In.browsers, c \in {NoArtifact, Signed("u1", ACCESS_TOKEN_EXPIRE_DAYS)} :
        ArriveGate(r, "logout", b, NoHeader, c, None, None, FALSE)

LogoutNext ==
    \/ Step({1}, LogoutInputs)
    \/ ArriveLogout(1, LogoutInputs)
    \/ UserContext(1)
    \/ Logout(1)

LogoutSpec == Init /\ [][LogoutNext]_vars

\* Deployments with either provider configured in full, in part or not at
\* all (os.getenv(..., "") for a variable that is not set).
Deployments ==
    [GOOGLE_CLIENT_ID : {"", " ", "id.apps.googleusercontent.com"},
     GOOGLE_CLIENT_SECRET : {"", "gsecret"},
     MICROSOFT_CLIENT_ID : {"", "msid"},
     MICROSOFT_CLIENT_SECRET : {"", "mssecret"},
     BASE_URL : {"http://localhost:8080"}]

Deployed ==
    /\ settings \in Deployments
    /\ now = 0
    /\ session = [b \in Browsers |-> EmptySession]
    /\ users = <<>>
    /\ nextState = 1
    /\ reqs = [r \in Reqs |-> IdleReq]
    /\ consumed = {}
    /\ businesses = <<>>
    /\ profiles = <<>>
    /\ loggedOut = {}

ConfigNext ==
    \/ ArriveLogin(1, [browsers |-> {"b1"}])
    \/ GoogleLogin(1)
    \/ MicrosoftLogin(1)

ConfigSpec == Deployed /\ [][ConfigNext]_vars

\* The four ways to sign in, one request at a time in one browser, behind a
\* plain and behind a TLS base URL.
CookieConfigs ==
    {[c EXCEPT !.BASE_URL = url] : c \in Configs,
                                   url \in {"http://localhost:8080", "https://connecthub.example"}}

Served ==
    /\ settings \in CookieConfigs
    /\ now = 0
    /\ session = [b \in Browsers |-> EmptySession]
    /\ users = <<>>
    /\ nextState = 1
    /\ reqs = [r \in Reqs |-> IdleReq]
    /\ consumed = {}
    /\ businesses = <<>>
    /\ profiles = <<>>
    /\ loggedOut = {}

CookieInputs ==
    [browsers |-> {"b1"},
     codes |-> {"code1"}, states |-> {},
     errors |-> {None}, authErrors |-> {None},
     tokens |-> TokenResponses,
     google |-> HandshakeInputs.google,
     microsoft |-> {p \in MicrosoftProfiles :
                       p.mail \in {None, "a@x.com"} /\ p.userPrincipalName = None
                       /\ p.id # None /\ p.displayName = "Ann" /\ p.givenName = NoKey
                       /\ p.surname = NoKey},
     form_emails |-> {"", "a@x.com"},
     passwords |-> {"1234567", "12345678", "abcdefgh"},
     display_names |-> {"Ann"}]

CookieNext ==
    \/ Tick
    \/ Step({1}, CookieInputs)
    \/ ArriveRegister(1, CookieInputs)
    \/ ArrivePasswordLogin(1, CookieInputs)
    \/ HandleForm({1})

CookieSpec == Served /\ [][CookieNext]_vars

\* Every way to sign in and out, one request at a time in one browser, for one
\* address: the providers give their name for the user and give or withhold a
\* picture, the forms post another name.
LifecycleInputs ==
    [browsers |-> {"b1"},
     codes |-> {"code1"}, states |-> {},
     errors |-> {None}, authErrors |-> {None},
     tokens |-> {"access_token"},
     google |-> {p \in GoogleProfiles : p.email = "a@x.com" /\ p.id = "g-1" /\ p.name = "Ann"},
     microsoft |-> {p \in MicrosoftProfiles :
                       p.mail = "a@x.com" /\ p.userPrincipalName = None /\ p.id = "m-1"
                       /\ p.displayName = "Ann" /\ p.givenName = NoKey /\ p.surname = NoKey},
     form_emails |-> {"a@x.com"},
     passwords |-> {"12345678"},
     display_names |-> {"Bob"}]

LifecycleNext ==
    \/ Tick
    \/ Step({1}, LifecycleInputs)
    \/ ArriveRegister(1, LifecycleInputs)
    \/ ArrivePasswordLogin(1, LifecycleInputs)
    \/ HandleForm({1})
    \/ ArriveLogout(1, LifecycleInputs)
    \/ UserContext(1)
    \/ Logout(1)

LifecycleSpec == Init /\ [][LifecycleNext]_vars

\* ====================================================================== claims
\* What the claims speak of, read off a request slot.
IsCallback(rec) == rec.kind \in Callbacks
\* The callback carries a provider error: error, or authError for google.
HasError(rec) ==
    Truthy(rec.error) \/ (rec.kind = "google_callback" /\ Truthy(rec.authError))
HasErrorParameter(rec) ==
    rec.error # None \/ (rec.kind = "google_callback" /\ rec.authError # None)
\* The state parameter is absent or is not the state the session held.
StateMismatch(rec) == ~Truthy(rec.state) \/ rec.state # rec.loaded.state
\* Nothing reached the provider or the users table, and no cookie was set.
NoSideEffect(rec) == rec.calls = {} /\ ~rec.wrote /\ rec.token = NoToken
Finished(rec) == rec.pc = "done"

\* C1: a callback with a code whose state is absent or differs from the state
\* of the session is rejected (400): no token exchange, no change of the users
\* table, no session cookie.
C1_InvalidStateRejected ==
    \A r \in Reqs :
        LET rec == reqs[r] IN
        (IsCallback(rec) /\ Truthy(rec.code) /\ ~HasError(rec) /\ StateMismatch(rec))
        => /\ NoSideEffect(rec)
           /\ Finished(rec) => rec.status = HTTP_400_BAD_REQUEST

\* C2: once a callback has consumed a state value, a later callback of the
\* same browser that presents that value is rejected (400) before any token
\* exchange.
C2_ReplayRejected ==
    \A r \in Reqs :
        LET rec == reqs[r] IN
        (IsCallback(rec) /\ rec.replay /\ Truthy(rec.code) /\ ~HasError(rec))
        => /\ "token" \notin rec.calls
           /\ Finished(rec) => rec.status = HTTP_400_BAD_REQUEST

\* C3: of two callbacks of one browser with the same code and state that are
\* in flight together, at most one has sent the token POST.
InFlight(rec) == rec.pc \in {"recv", "token", "userinfo", "select", "commit"}
C3_OneExchangePerState ==
    \A r1, r2 \in Reqs :
        LET a == reqs[r1]
            b == reqs[r2]
        IN
        (r1 # r2 /\ IsCallback(a) /\ IsCallback(b) /\ InFlight(a) /\ InFlight(b)
            /\ a.browser = b.browser /\ a.code = b.code /\ a.state = b.state)
        => ~("token" \in a.calls /\ "token" \in b.calls)

\* C4: when a callback that carried a code (and no error) has answered, the
\* session of its browser holds neither the state nor the provider pairing.
C4_StateSingleUse ==
    \A r \in Reqs :
        LET rec == reqs[r] IN
        (IsCallback(rec) /\ Finished(rec) /\ Truthy(rec.code) /\ ~HasError(rec))
        => session[rec.browser] = EmptySession

\* C5: a callback whose state equals the stored one gets to the token exchange
\* only if the state was stored for the callback's own provider.
C5_StateBoundToProvider ==
    \A r \in Reqs :
        LET rec == reqs[r] IN
        (IsCallback(rec) /\ "token" \in rec.calls /\ ~StateMismatch(rec))
        => rec.loaded.oauth_state.provider = ProviderOf(rec.kind)

\* C6 (as amended): a callback that carries a non-empty provider error
\* parameter ends with the error view, whatever code and state it carries: no
\* token exchange, no profile fetch, no access to the users table, no cookie.
ErrorRejected(rec) ==
    /\ NoSideEffect(rec)
    /\ rec.pc \in {"recv", "done"}
    /\ Finished(rec) => (rec.status = HTTP_200_OK /\ rec.detail = "auth/error.html")

C6_ErrorRejected ==
    \A r \in Reqs :
        (IsCallback(reqs[r]) /\ HasError(reqs[r])) => ErrorRejected(reqs[r])

\* C6 as stated: the same of every callback that carries an error parameter.
C6_ErrorParameterRejected ==
    \A r \in Reqs :
        (IsCallback(reqs[r]) /\ HasErrorParameter(reqs[r])) => ErrorRejected(reqs[r])

\* An error callback that also carried a code and the state of its session
\* has been answered.
C6_Witness ==
    \E r \in Reqs :
        LET rec == reqs[r] IN
        /\ IsCallback(rec) /\ Finished(rec) /\ HasError(rec)
        /\ Truthy(rec.code) /\ Truthy(rec.state) /\ rec.state = rec.loaded.state

\* C7: a callback without a code makes no call to the provider (and touches
\* neither the users table nor the cookie) whatever its state parameter; it is
\* answered 400 (with the error view instead when it carries an error, C6).
C7_MissingCodeRejected ==
    \A r \in Reqs :
        LET rec == reqs[r] IN
        (IsCallback(rec) /\ ~Truthy(rec.code))
        => /\ NoSideEffect(rec)
           /\ rec.pc \in {"recv", "done"}
           /\ (Finished(rec) /\ ~HasError(rec)) => rec.status = HTTP_400_BAD_REQUEST

\* A callback without a code, carrying the state of its session, was answered.
C7_Witness ==
    \E r \in Reqs :
        LET rec == reqs[r] IN
        /\ IsCallback(rec) /\ Finished(rec) /\ ~Truthy(rec.code) /\ ~HasError(rec)
        /\ Truthy(rec.state) /\ rec.state = rec.loaded.state

\* C8: when the token response holds no access token the callback is rejected
\* (400): the user-info endpoint is not called, the users table is not
\* changed, no cookie is set.
C8_NoAccessTokenRejected ==
    \A r \in Reqs :
        LET rec == reqs[r] IN
        (IsCallback(rec) /\ rec.token_resp = "no_access_token")
        => /\ "userinfo" \notin rec.calls
           /\ ~rec.wrote /\ rec.token = NoToken
           /\ Finished(rec) => rec.status = HTTP_400_BAD_REQUEST

\* C9: when the fetched profile holds no email the callback is rejected with
\* 400, email not provided, whatever the other fields; the users table is not
\* changed, no cookie is set.
C9_NoEmailRejected ==
    \A r \in Reqs :
        LET rec == reqs[r] IN
        (IsCallback(rec) /\ rec.userinfo_resp = "no_email")
        => /\ ~rec.wrote /\ rec.token = NoToken
           /\ Finished(rec) => /\ rec.status = HTTP_400_BAD_REQUEST
                               /\ rec.detail \in {"Email not provided by Google",
                                                  "Email not provided by Microsoft"}

\* C10: a callback with the state of its session whose code the provider
\* accepted and whose profile held an email (the first to use that state: no
\* replay, no duplicate answered before it) ends with exactly one user of that
\* email and a cookie whose artifact is not expired and names that user.
C10_ValidCallbackLogsIn ==
    \A r \in Reqs :
        LET rec == reqs[r] IN
        (IsCallback(rec) /\ Finished(rec) /\ ~StateMismatch(rec)
            /\ rec.token_resp = "access_token" /\ rec.userinfo_resp = "email"
            /\ ~rec.replay /\ ~rec.late)
        => /\ Cardinality(UsersByEmail(rec.email)) = 1
           /\ rec.status = HTTP_302_FOUND
           /\ \E u \in UsersByEmail(rec.email) : rec.token.sub = u
           /\ rec.token.exp > now

\* A request that ended with the dashboard redirect and the session cookie.
LoggedIn(rec) == Finished(rec) /\ rec.status = HTTP_302_FOUND /\ rec.token # NoToken

\* C11: whatever the interleaving of OAuth callbacks (either provider, any
\* browser) and registrations, no two user rows have the same email.
C11_OneUserPerEmail ==
    \A u, v \in UserIds : users[u].email = users[v].email => u = v

\* Two callbacks from different browsers have both logged in, for one email.
C11_Witness ==
    \E r1, r2 \in Reqs :
        /\ r1 # r2 /\ IsCallback(reqs[r1]) /\ IsCallback(reqs[r2])
        /\ LoggedIn(reqs[r1]) /\ LoggedIn(reqs[r2])
        /\ reqs[r1].browser # reqs[r2].browser
        /\ reqs[r1].email = reqs[r2].email

\* The letters of an email in lower case, on the addresses of the model.
Lower(e) == IF e = "A@x.com" THEN "a@x.com" ELSE e

\* C12: no two user rows have emails that are equal when letter case is
\* ignored.
C12_CaseInsensitiveEmail ==
    \A u, v \in UserIds : Lower(users[u].email) = Lower(users[v].email) => u = v

\* A callback that logged in a user who was there already.
Returning(rec) == IsCallback(rec) /\ LoggedIn(rec) /\ rec.found # None

\* C13: an OAuth login of an existing user never stores a last_login_at that
\* is earlier than the one it replaces (the strict increase of the claim
\* requires at least this), each login using a state of its own.
C13_LastLoginNeverGoesBack ==
    \A r \in Reqs :
        (Returning(reqs[r]) /\ ~reqs[r].replay /\ ~reqs[r].late)
        => reqs[r].prior.last_login_at <= reqs[r].login_at

\* The picture URL the provider supplied: google's "picture"; the microsoft
\* handler reads none.
SuppliedPicture(rec) ==
    IF rec.kind = "google_callback" THEN rec.user_data.picture ELSE None

\* C14: when an OAuth login resolves to an existing user, the stored picture
\* URL is left as it was if the provider supplied none, and is changed only to
\* a non-empty URL the provider supplied.
C14_PictureKeptWithoutNewOne ==
    \A r \in Reqs :
        LET rec == reqs[r] IN
        Returning(rec)
        => LET stored == users[rec.found].profile_picture_url IN
           /\ ~Truthy(SuppliedPicture(rec)) => stored = rec.prior.profile_picture_url
           /\ stored # rec.prior.profile_picture_url
                => (Truthy(SuppliedPicture(rec)) /\ stored = SuppliedPicture(rec))

\* A user with a stored picture logged in again and the provider gave none.
C14_Witness ==
    \E r \in Reqs :
        /\ Returning(reqs[r]) /\ ~Truthy(SuppliedPicture(reqs[r]))
        /\ Truthy(reqs[r].prior.profile_picture_url)

\* What the provider returned: the email, and the name (google's "name",
\* microsoft's "displayName").
SuppliedEmail(rec) ==
    IF rec.kind = "google_callback" THEN rec.user_data.email
    ELSE Or(rec.user_data.mail, rec.user_data.userPrincipalName)
SuppliedName(rec) ==
    IF rec.kind = "google_callback" THEN rec.user_data.name
    ELSE rec.user_data.displayName
\* The provider supplied no name at all (for microsoft: no given name and no
\* surname either).
NoSuppliedName(rec) ==
    /\ ~Truthy(SuppliedName(rec))
    /\ rec.kind = "microsoft_callback"
         => /\ rec.user_data.givenName \in {NoKey, ""}
            /\ rec.user_data.surname \in {NoKey, ""}

\* A callback that logged in a user it created.
Created(rec) == IsCallback(rec) /\ LoggedIn(rec) /\ rec.found = None

\* C15: an OAuth login that finds no user of the returned email creates one
\* user of that email, with the callback's provider, the provider's id, no
\* password hash, and for display name the name the provider supplied or, when
\* it supplied none, the local part of the email.
C15_NewOAuthUser ==
    \A r \in Reqs :
        LET rec == reqs[r] IN
        Created(rec)
        => /\ Cardinality(UsersByEmail(SuppliedEmail(rec))) = 1
           /\ \A u \in UsersByEmail(SuppliedEmail(rec)) :
                /\ rec.token.sub = u
                /\ users[u].oauth_provider = ProviderOf(rec.kind)
                /\ rec.user_data.id # None => users[u].oauth_id = rec.user_data.id
                /\ users[u].password_hash = None
                /\ Truthy(SuppliedName(rec)) => users[u].display_name = SuppliedName(rec)
                /\ NoSuppliedName(rec)
                     => users[u].display_name = LocalPart(SuppliedEmail(rec))

\* A user was created from a profile without a name.
C15_Witness ==
    \E r \in Reqs : Created(reqs[r]) /\ NoSuppliedName(reqs[r])

\* ------------------------------------------------------- the credential forms
IsLogin(rec) == rec.kind = "login"
IsRegister(rec) == rec.kind = "register"
\* The login view with an error message, and no cookie.
Refused(rec, msg) ==
    /\ rec.status = HTTP_200_OK /\ rec.detail = "auth/login.html"
    /\ rec.error_message = msg /\ rec.token = NoToken /\ ~rec.wrote
\* The users, among those there when the form was posted, of the form's email.
Known(rec) == {u \in rec.seen : users[u].email = rec.email}

\* C16: a password login (email and password submitted) for the email of a
\* user whose oauth_provider is set is refused with the message that names
\* that provider, whatever the password; the checks come in the order not
\* found, wrong method, bad credentials.
C16_OAuthAccountRefused ==
    \A r \in Reqs :
        LET rec == reqs[r] IN
        (IsLogin(rec) /\ Finished(rec) /\ Truthy(rec.email) /\ Truthy(rec.password))
        => /\ \A u \in Known(rec) :
                Truthy(users[u].oauth_provider)
                => Refused(rec, "This email is registered with " \o users[u].oauth_provider)
           /\ UsersByEmail(rec.email) = {}
                => Refused(rec, "No account found with this email. Please register first.")

\* A login for the email of a google user, with a password, was answered.
C16_Witness ==
    \E r \in Reqs :
        /\ IsLogin(reqs[r]) /\ Finished(reqs[r]) /\ Truthy(reqs[r].password)
        /\ \E u \in Known(reqs[r]) : users[u].oauth_provider = "google"

\* The login cannot succeed: a field is missing, no user has the email, the
\* user is an OAuth one, has no password hash, or the password is not the one
\* that was hashed.
MustFail(rec) ==
    \/ ~Truthy(rec.email) \/ ~Truthy(rec.password)
    \/ UsersByEmail(rec.email) = {}
    \/ \E u \in UsersByEmail(rec.email) :
         \/ Truthy(users[u].oauth_provider)
         \/ ~Truthy(users[u].password_hash)
         \/ users[u].password_hash # HashPassword(rec.password)

\* C17: a password login that fails sets no cookie, and no step of a login
\* request other than the commit of a successful one changes the users table.
C17_FailedLoginChangesNothing ==
    /\ [](\A r \in Reqs :
            (IsLogin(reqs[r]) /\ Finished(reqs[r]) /\ MustFail(reqs[r]))
            => (reqs[r].token = NoToken /\ reqs[r].status = HTTP_200_OK /\ ~reqs[r].wrote))
    /\ [][\A r \in Reqs :
            (IsLogin(reqs'[r]) /\ reqs'[r] # reqs[r] /\ ~LoggedIn(reqs'[r]))
            => users' = users]_vars

\* A login with a wrong password for a registered user was answered.
C17_Witness ==
    \E r \in Reqs :
        /\ IsLogin(reqs[r]) /\ Finished(reqs[r]) /\ Truthy(reqs[r].password)
        /\ \E u \in Known(reqs[r]) :
             /\ Truthy(users[u].password_hash)
             /\ users[u].password_hash # HashPassword(reqs[r].password)

\* The users a registration with the form's email and password produced
\* before the form was posted.
RegisteredWith(rec) ==
    {u \in Known(rec) : /\ users[u].oauth_provider = None
                        /\ Truthy(rec.password)
                        /\ users[u].password_hash = HashPassword(rec.password)}

\* C18: after a successful registration, a password login with the same email
\* and password succeeds, sets last_login_at to its own time, and its cookie
\* names the user the registration produced.
C18_RegisterThenLogin ==
    \A r \in Reqs :
        LET rec == reqs[r] IN
        (IsLogin(rec) /\ Finished(rec))
        => \A u \in RegisteredWith(rec) :
             /\ LoggedIn(rec)
             /\ rec.token.sub = u
             /\ rec.token.exp > now
             /\ rec.login_at >= rec.prior.last_login_at
             /\ users[u].last_login_at = rec.login_at

\* A login after the registration, at a later time than the registration.
C18_Witness ==
    \E r \in Reqs :
        /\ IsLogin(reqs[r]) /\ LoggedIn(reqs[r])
        /\ RegisteredWith(reqs[r]) # {}
        /\ reqs[r].prior.last_login_at < reqs[r].login_at

\* C19: a registration whose email is taken or whose password has fewer than
\* 8 characters creates and changes no user and hashes nothing; any other
\* (email and password given) creates one user with a password hash and no
\* OAuth fields.  No step of a registration other than its successful commit
\* changes the users table.
C19_Register ==
    /\ [](\A r \in Reqs :
            LET rec == reqs[r] IN
            (IsRegister(rec) /\ Finished(rec))
            => IF Known(rec) # {} \/ PasswordLength(rec.password) < 8
               THEN ~rec.wrote /\ rec.token = NoToken /\ "hash" \notin rec.calls
                    /\ rec.status # HTTP_302_FOUND
               ELSE Truthy(rec.email)
                    => /\ LoggedIn(rec)
                       /\ Cardinality(UsersByEmail(rec.email)) = 1
                       /\ \A u \in UsersByEmail(rec.email) :
                            /\ u \notin rec.seen
                            /\ rec.token.sub = u
                            /\ Truthy(users[u].password_hash)
                            /\ users[u].oauth_provider = None
                            /\ users[u].oauth_id = None)
    /\ [][\A r \in Reqs :
            (IsRegister(reqs'[r]) /\ reqs'[r] # reqs[r] /\ ~LoggedIn(reqs'[r]))
            => users' = users]_vars

\* A registration with a password of 7 characters was refused, while one of
\* the same email with 8 had gone through.
C19_Witness ==
    \E r \in Reqs :
        /\ IsRegister(reqs[r]) /\ Finished(reqs[r])
        /\ PasswordLength(reqs[r].password) = 7
        /\ Known(reqs[r]) # {}

\* C20: register and login never answer 500, whatever fields are posted; a
\* submission that lacks the email or the password gets the login view with
\* an error message.
C20_FormsNeverCrash ==
    \A r \in Reqs :
        LET rec == reqs[r] IN
        (rec.kind \in FormKinds /\ Finished(rec))
        => /\ rec.status # HTTP_500_INTERNAL_SERVER_ERROR
           /\ (~Truthy(rec.email) \/ ~Truthy(rec.password))
                => (rec.status = HTTP_200_OK /\ rec.detail = "auth/login.html"
                    /\ Truthy(rec.error_message))

\* ------------------------------------------------------------------------ C21
\* A direct decoding of the artifact slot 1 holds, minted with a ttl > 0.
Minted == reqs[1]
Decoding == reqs[2]
RoundTrip ==
    /\ Minted.kind = "create_access_token" /\ Minted.expires_delta > 0
    /\ Decoding.kind = "decode_access_token"
    /\ Decoding.cookie = Encoded(Minted.token)
ReturnedSubject(rec, sub) == rec.error_message = "payload" /\ rec.payload.sub = sub
FailedExpired(rec) ==
    /\ rec.error_message = "http" /\ rec.status = HTTP_401_UNAUTHORIZED
    /\ rec.detail = "Token has expired"

FailedInvalid(rec) ==
    /\ rec.error_message = "http" /\ rec.status = HTTP_401_UNAUTHORIZED
    /\ rec.detail = "Could not validate credentials"

\* C22: decode_access_token returns the payload of a correctly signed
\* unexpired artifact, fails with 401 'Token has expired' on a correctly
\* signed expired one and with 401 'Could not validate credentials' on every
\* other text; it fails in no other way.
C22_ThreeOutcomes ==
    Decoding.kind = "decode_access_token" =>
        LET a == Decoding.cookie IN
        IF a.sig # "valid" THEN FailedInvalid(Decoding)
        ELSE IF Decoding.payload = NoToken THEN FailedExpired(Decoding)
        ELSE ReturnedSubject(Decoding, a.sub) /\ Decoding.payload.exp = a.exp

\* ------------------------------------------------------------------------ C23
\* The artifact verifies now and names a user of the table.
Good(a) == a.sig = "valid" /\ a.exp > now /\ a.sub \in UserIds
\* The step of request r through the middleware.
ThroughMiddleware(r) ==
    reqs[r].pc = "recv" /\ reqs[r].kind \in GateKinds /\ reqs'[r].pc # "recv"

\* C23: whatever credentials a request carries, the middleware answers no
\* error itself: it hands the request to the handler, and the identity slot
\* is empty unless an artifact of the request verifies and names an existing
\* user, who is then the one in the slot.
C23_MiddlewareNeverErrors ==
    [][\A r \in Reqs :
          ThroughMiddleware(r) =>
              /\ reqs'[r].pc = "route" /\ reqs'[r].status = 0
              /\ reqs'[r].user # None =>
                    \E a \in {reqs[r].authorization.token, reqs[r].cookie} :
                        Good(a) /\ reqs'[r].user = a.sub]_vars

C23_Witness ==
    \E r \in Reqs :
        /\ reqs[r].pc = "route" /\ reqs[r].user = None
        /\ IsBearer(reqs[r].authorization)
        /\ reqs[r].authorization.token.sig = "tampered"

\* ------------------------------------------------------------------------ C24
\* C24: a Bearer artifact valid for an existing user decides the identity
\* whatever the cookie holds, and whenever the header is a Bearer header the
\* identity is never taken from the cookie.
C24_HeaderBeforeCookie ==
    [][\A r \in Reqs :
          (ThroughMiddleware(r) /\ IsBearer(reqs[r].authorization)) =>
              LET a == reqs[r].authorization.token IN
              /\ Good(a) => reqs'[r].user = a.sub
              /\ ~Good(a) => reqs'[r].user = None]_vars

C24_Witness ==
    \E r \in Reqs :
        /\ reqs[r].pc = "route"
        /\ IsBearer(reqs[r].authorization)
        /\ Good(reqs[r].authorization.token) /\ Good(reqs[r].cookie)
        /\ reqs[r].cookie.sub # reqs[r].authorization.token.sub
        /\ reqs[r].user = reqs[r].authorization.token.sub

\* ------------------------------------------------------------------------ C25
GatedKinds ==
    {"create_business", "update_business", "delete_business",
     "create_or_update_profile", "delete_profile"}
\* The identity of a request: the Bearer header's when there is one, else the
\* cookie's; None when that artifact does not verify or names no user.
Identity(rec) ==
    LET a == IF IsBearer(rec.authorization) THEN rec.authorization.token ELSE rec.cookie
    IN IF Good(a) THEN a.sub ELSE None
\* The step of request r through require_auth and its handler.
ThroughGate(r) ==
    reqs[r].pc = "route" /\ reqs[r].kind \in GatedKinds /\ reqs'[r].pc = "done"

\* C25: require_auth fails the request with 401 exactly when no identity is
\* resolved for it, and otherwise returns the user the artifact names.
C25_GateRejectsExactlyUnidentified ==
    [][\A r \in Reqs :
          ThroughGate(r) =>
              /\ (reqs'[r].status = HTTP_401_UNAUTHORIZED) <=> (Identity(reqs[r]) = None)
              /\ Identity(reqs[r]) # None => reqs'[r].auth_user = Identity(reqs[r])]_vars

\* ------------------------------------------------------------------------ C27
\* A logout answered earlier carried the artifact.
LoggedOut(a) == \E out \in loggedOut : out.cookie = a

\* C27: an artifact a logout carried, still unexpired, resolves to its user
\* when presented again in the cookie or in a Bearer header; and the logout
\* changes no table.
C27_NoRevocation ==
    /\ [][\A r \in Reqs :
            ThroughMiddleware(r) =>
                LET h == reqs[r].authorization
                    a == IF h = NoHeader THEN reqs[r].cookie ELSE h.token
                IN (LoggedOut(a) /\ Good(a) /\ (h = NoHeader \/ IsBearer(h)))
                       => reqs'[r].user = a.sub]_vars
    /\ [][\A r \in Reqs :
            (reqs[r].kind = "logout" /\ reqs[r].pc = "route" /\ reqs'[r].pc = "done")
                => (users' = users /\ businesses' = businesses /\ profiles' = profiles)]_vars

C27_Witness ==
    \E r \in Reqs :
        /\ reqs[r].pc = "done" /\ reqs[r].kind = "create_business"
        /\ reqs[r].authorization = NoHeader
        /\ LoggedOut(reqs[r].cookie)
        /\ reqs[r].user = reqs[r].cookie.sub /\ reqs[r].user # None
        /\ reqs[r].wrote

\* ------------------------------------------------------------------------ C26
\* A table with the view counts left out.
SansViews(table) == [k \in DOMAIN table |-> [table[k] EXCEPT !.view_count = 0]]
\* The step is the answer of a gated route to a request with an identity.
ByIdentified ==
    \E r \in Reqs : ThroughGate(r) /\ Identity(reqs[r]) # None
                       /\ reqs'[r].auth_user = Identity(reqs[r])

\* C26 as stated: no business or profile record is created, updated or
\* deleted except by a request for which an identity is resolved.
C26_NoWriteWithoutIdentity ==
    [][(businesses' # businesses \/ profiles' # profiles) => ByIdentified]_vars

\* C26 amended: no business or profile record is created or deleted, and no
\* column of one other than its view count is changed, except by a request
\* for which an identity is resolved; a view count changes by one at a time.
C26_OnlyViewsWithoutIdentity ==
    [][/\ (SansViews(businesses') # SansViews(businesses)
            \/ SansViews(profiles') # SansViews(profiles)) => ByIdentified
       /\ \A k \in DOMAIN businesses \cap DOMAIN businesses' :
             businesses'[k].view_count \in {businesses[k].view_count, businesses[k].view_count + 1}
       /\ \A k \in DOMAIN profiles \cap DOMAIN profiles' :
             profiles'[k].view_count \in {profiles[k].view_count, profiles[k].view_count + 1}]_vars

C26_Witness ==
    \E r \in Reqs :
        /\ reqs[r].pc = "done" /\ reqs[r].kind = "delete_business"
        /\ reqs[r].wrote /\ reqs[r].auth_user = "u2"
        /\ businesses = <<>>
        /\ \E p \in DOMAIN profiles : profiles[p].view_count > 0

\* ------------------------------------------------------------------------ C28
\* C28: a logout, whatever the session holds, answers 302 to the home page
\* with the session emptied and the session_token cookie deleted; a callback
\* that arrives afterwards with a state the logout cleared is rejected: it
\* makes no token exchange and ends in an error without a session_token.
C28_LogoutClearsState ==
    \A r \in Reqs :
        LET rec == reqs[r] IN
        /\ (rec.kind = "logout" /\ rec.pc = "done") =>
               /\ rec.status = HTTP_302_FOUND /\ rec.detail = "/"
               /\ rec.sess = EmptySession /\ rec.delete_cookie
        /\ (rec.kind \in Callbacks /\ rec.after_logout) =>
               /\ "token" \notin rec.calls
               /\ rec.pc = "done" => (rec.status = HTTP_400_BAD_REQUEST /\ rec.token = NoToken)

\* ------------------------------------------------------------------------ C29
\* The client id or the client secret of the provider is missing.
NotConfigured(provider) ==
    IF provider = "google"
    THEN ~Truthy(Strip(settings.GOOGLE_CLIENT_ID)) \/ ~Truthy(Strip(settings.GOOGLE_CLIENT_SECRET))
    ELSE ~Truthy(Strip(settings.MICROSOFT_CLIENT_ID))
         \/ ~Truthy(Strip(settings.MICROSOFT_CLIENT_SECRET))

\* C29: a login started for a provider that is not configured is answered
\* 302 to the login page with an error code, and stores no CSRF state.
C29_NotConfiguredRedirects ==
    \A r \in Reqs :
        LET rec == reqs[r] IN
        (rec.kind \in Logins /\ rec.pc = "done" /\ NotConfigured(ProviderOf(rec.kind))) =>
            /\ rec.status = HTTP_302_FOUND
            /\ rec.detail = "/auth/login?error=oauth_not_configured"
            /\ rec.sess = rec.loaded /\ rec.url_state = None

\* ------------------------------------------------------------------------ C30
SignInKinds == Callbacks \cup FormKinds
\* The request authenticated its user: the row was found or created and the
\* commit went through.
Authenticated(rec) == rec.wrote
\* The step that answers request r.
Answered(r) == reqs[r].pc # "done" /\ reqs'[r].pc = "done"

\* C30: each of the four sign-in paths sets the session_token cookie exactly
\* when it has authenticated the user, on a 302 to the landing page; the
\* cookie holds an artifact minted at that moment for that user, is HttpOnly,
\* SameSite=Lax, lives as long as the artifact and is Secure iff the base URL
\* is https.  A request that is not answered that way sets no such cookie.
C30_CookieOnSuccessOnly ==
    /\ [](\A r \in Reqs :
            LET rec == reqs[r] IN
            rec.kind \in SignInKinds =>
                /\ rec.token # NoToken <=> (rec.pc = "done" /\ Authenticated(rec))
                /\ rec.token = NoToken => rec.set_cookie = NoCookie
                /\ rec.token # NoToken =>
                      /\ rec.status = HTTP_302_FOUND /\ rec.detail = "/dashboard"
                      /\ rec.set_cookie.httponly /\ rec.set_cookie.samesite = "lax"
                      /\ rec.set_cookie.secure
                            <=> (settings.BASE_URL = "https://connecthub.example")
                      /\ rec.token.sub \in UserIds
                      /\ users[rec.token.sub].email = rec.email)
    /\ [][\A r \in Reqs :
            (Answered(r) /\ reqs'[r].token # NoToken) =>
                /\ reqs'[r].token.exp > now
                /\ reqs'[r].set_cookie.max_age = SECONDS_PER_DAY * (reqs'[r].token.exp - now)]_vars

C30_Witness ==
    /\ settings.BASE_URL = "https://connecthub.example"
    /\ \E r \in Reqs :
          /\ reqs[r].pc = "done" /\ reqs[r].kind = "microsoft_callback"
          /\ reqs[r].token # NoToken /\ reqs[r].set_cookie.secure
          /\ \E u \in UserIds : users[u].password_hash # None

\* ------------------------------------------------------------------------ C31
\* What the client is sent: the status line's detail and the view's message.
Sent(rec) == {rec.detail, rec.error_message}
\* The text holds the exception's message.
Carries(text, e) ==
    \E lead \in {"", "Error saving user to database: ", "Registration failed: ",
                  "Login failed: "} : text = lead \o e
\* The store failed under request r.
StoreFailed(rec) == rec.pc = "done" /\ rec.exception # None

\* C31: when the user store fails during the resolve/persist step of a
\* sign-in, no user change persists, no session cookie is issued, and the
\* response does not carry the storage exception's message.
C31_StoreFailureIsGeneric ==
    /\ [](\A r \in Reqs :
            StoreFailed(reqs[r]) =>
                /\ reqs[r].token = NoToken /\ reqs[r].set_cookie = NoCookie
                /\ ~reqs[r].wrote
                /\ \A text \in Sent(reqs[r]) : ~Carries(text, reqs[r].exception))
    /\ [][\A r \in Reqs :
            (~StoreFailed(reqs[r]) /\ StoreFailed(reqs'[r])) => users' = users]_vars

\* ------------------------------------------------------------------------ C32
\* The columns a sign-in may write.
Mutable == {"last_login_at", "profile_picture_url", "password_hash"}
\* The row without them.
Fixed(row) == [f \in (DOMAIN row) \ Mutable |-> row[f]]

\* C32: no authentication operation deletes a user, and after creation a user's
\* id, email, oauth_provider, oauth_id and display_name never change: the only
\* columns these operations write are last_login_at, profile_picture_url and
\* password_hash.
C32_UserLifecycle ==
    [][\A u \in UserIds :
          /\ u \in DOMAIN users'
          /\ users[u].id = u
          /\ Fixed(users'[u]) = Fixed(users[u])]_vars

C32_Witness ==
    \E r \in Reqs :
        LET rec == reqs[r] IN
        /\ rec.pc = "done" /\ rec.kind \in Callbacks /\ rec.wrote /\ rec.found \in UserIds
        /\ rec.display_name # users[rec.found].display_name
        /\ ProviderOf(rec.kind) # users[rec.found].oauth_provider
        /\ users[rec.found].profile_picture_url # rec.prior.profile_picture_url
        /\ users[rec.found].last_login_at # rec.prior.last_login_at

\* ------------------------------------------------------------------------ C33
\* C33: in every reachable state every user record has email_verified = false.
C33_NeverVerified == \A u \in UserIds : users[u].email_verified = FALSE

\* A registered user who has signed in again, by password and by a provider.
C33_Witness ==
    /\ \E u \in UserIds : users[u].password_hash # None /\ users[u].last_login_at > 0
    /\ \E r \in Reqs : /\ reqs[r].pc = "done" /\ reqs[r].kind \in Callbacks
                        /\ reqs[r].wrote /\ reqs[r].found \in UserIds

\* ------------------------------------------------------------------------ C34
\* The token-exchange POST of the callback has been sent.
TokenPosted(rec) == rec.kind \in Callbacks /\ "token" \in rec.calls

\* C34: within a callback execution, for both providers, the stored CSRF state
\* is removed from the execution's session before the token-exchange POST is
\* sent: the token endpoint is never called while request.session holds it.
C34_StateRemovedBeforeExchange ==
    \A r \in Reqs : TokenPosted(reqs[r]) => reqs[r].sess = EmptySession

\* Both providers' exchanges in flight together, each for a session that held a state.
C34_Witness ==
    \E r, q \in Reqs :
        /\ reqs[r].kind = "google_callback" /\ reqs[q].kind = "microsoft_callback"
        /\ reqs[r].pc = "token" /\ reqs[q].pc = "token"
        /\ reqs[r].loaded.state # None /\ reqs[q].loaded.state # None

\* ------------------------------------------------------------------------ C35
\* Both provider calls of the execution have returned without raising.
ProviderCallsCompleted(rec) ==
    /\ {"token", "userinfo"} \subseteq rec.calls
    /\ rec.token_resp \notin {None, "error"} /\ rec.userinfo_resp \notin {None, "error"}
\* The execution has read or written the user store.
StoreTouched(rec) == rec.calls \cap {"select", "commit"} # {}

\* C35: in every callback execution the user store is read and written only
\* after the token exchange and the profile fetch have both completed; when
\* either fails, the users table stays what it was before the callback.
C35_StoreAfterProviderCalls ==
    /\ [](\A r \in Reqs :
            (reqs[r].kind \in Callbacks /\ StoreTouched(reqs[r])) =>
                ProviderCallsCompleted(reqs[r]))
    /\ [][users' # users =>
            \E r \in Reqs : /\ reqs[r].kind \in Callbacks /\ reqs[r].pc = "commit"
                             /\ ProviderCallsCompleted(reqs[r])]_vars

\* A profile fetch that failed after a good token exchange, with a user on record.
C35_Witness ==
    /\ UserIds # {}
    /\ \E r \in Reqs :
          /\ reqs[r].kind \in Callbacks /\ reqs[r].pc = "done"
          /\ reqs[r].token_resp = "access_token" /\ reqs[r].userinfo_resp = "error"
          /\ ~StoreTouched(reqs[r])

\* ------------------------------------------------------------------------ C36
\* Request r is answered with the redirect to its provider's authorization URL.
Initiated(r) ==
    /\ reqs[r].pc # "done" /\ reqs'[r].pc = "done"
    /\ reqs'[r].kind \in Logins /\ reqs'[r].status = HTTP_307_TEMPORARY_REDIRECT

\* C36: a successful Initiate, for either provider, stores in the session a
\* state value never issued before, with the initiating provider's name and
\* the time of issue, and the state parameter of the authorization URL it
\* redirects to is the stored state.
C36_InitiateStoresState ==
    [][\A r \in Reqs :
          Initiated(r) =>
              LET stored == session'[reqs'[r].browser] IN
              /\ stored.state # None /\ stored.state \notin IssuedStates
              /\ stored.oauth_state = [provider |-> ProviderOf(reqs'[r].kind),
                                       timestamp |-> now]
              /\ reqs'[r].url_state = stored.state]_vars

\* A microsoft sign-in started from an idle session, later than time 0.
C36_Witness ==
    \E r \in Reqs :
        /\ reqs[r].pc = "done" /\ reqs[r].kind = "microsoft_login"
        /\ reqs[r].status = HTTP_307_TEMPORARY_REDIRECT
        /\ reqs[r].loaded = EmptySession
        /\ session[reqs[r].browser].state = reqs[r].url_state
        /\ session[reqs[r].browser].oauth_state.timestamp > 0

\* ------------------------------------------------------------------------ C37
\* C37: get_current_user returns a User or None and never raises, whatever the
\* Authorization header and the session_token cookie of the request.
C37_GetCurrentUserNeverRaises ==
    \A r \in Reqs :
        (reqs[r].pc = "recv" /\ reqs[r].kind \in GateKinds) =>
            GetCurrentUser(reqs[r]).kind = "user"

\* ------------------------------------------------------------------------ C38
\* The method a request signs in by: the provider's name, None for the forms.
MethodOf(k) == IF k \in Callbacks THEN ProviderOf(k) ELSE None
\* The columns that say how the account was created and how it logs in.
Origin(row) == <<row.oauth_provider, row.oauth_id, row.password_hash>>
\* Request r is answered having signed in a user who was on record.
SignedInExisting(r) ==
    /\ reqs[r].pc = "commit" /\ reqs'[r].pc = "done"
    /\ reqs[r].kind \in Callbacks /\ reqs[r].found \in UserIds

\* C38: an OAuth login whose email matches a user created by another method is
\* accepted and logs in that user, leaving oauth_provider, oauth_id and
\* password_hash as they were; a locally registered user can still log in with
\* the password afterwards; oauth_provider records the method that created
\* the account.
C38_EmailIsTheAuthority ==
    /\ [][\A r \in Reqs :
            SignedInExisting(r) =>
                LET u == reqs[r].found IN
                /\ users[u].email = reqs[r].email
                /\ reqs'[r].status = HTTP_302_FOUND /\ reqs'[r].token.sub = u
                /\ Origin(users'[u]) = Origin(users[u])]_vars
    /\ [](\A r \in Reqs :
            LET rec == reqs[r] IN
            (/\ rec.kind = "login" /\ rec.pc = "done" /\ rec.found \in UserIds
             /\ users[rec.found].oauth_provider = None
             /\ VerifyPassword(rec.password, users[rec.found].password_hash)) =>
                rec.token.sub = rec.found)
    /\ [][\A u \in UserIds :
            users'[u].oauth_provider = users[u].oauth_provider]_vars
    /\ [][\A u \in (DOMAIN users') \ UserIds :
            \E r \in Reqs : /\ reqs[r].pc # "done" /\ reqs'[r].pc = "done" /\ reqs'[r].wrote
                             /\ users'[u].oauth_provider = MethodOf(reqs'[r].kind)]_vars

\* A registered user, signed in by google since (the picture is google's),
\* logs in with the password.
C38_Witness ==
    \E r \in Reqs :
        LET rec == reqs[r] IN
        /\ rec.kind = "login" /\ rec.pc = "done" /\ rec.token # NoToken
        /\ rec.found \in UserIds
        /\ users[rec.found].oauth_provider = None
        /\ users[rec.found].profile_picture_url = "pic-1"

\* ------------------------------------------------------------------------ C39
\* The state value issued last.
LastIssued == StateToken(nextState - 1)
\* A microsoft callback that went past the state check.
Validated(rec) == rec.kind = "microsoft_callback" /\ "token" \in rec.calls
\* A callback that carries a state issued before the one its session holds.
Superseded(rec) ==
    /\ rec.state \in IssuedStates /\ rec.loaded.state \in IssuedStates
    /\ rec.state # rec.loaded.state

\* C39: a session holds one pending CSRF state at most: a login started again
\* in the session replaces the stored state and provider, a microsoft callback
\* carrying the earlier state is rejected afterwards, and only the state
\* issued last can validate.
C39_OnePendingState ==
    /\ [][\A r \in Reqs :
            (reqs[r].pc # "done" /\ reqs'[r].pc = "done" /\ reqs'[r].kind \in Logins
             /\ reqs'[r].url_state # None) =>
                /\ session'[reqs'[r].browser].state = reqs'[r].url_state
                /\ session'[reqs'[r].browser].oauth_state.provider = ProviderOf(reqs'[r].kind)
                /\ reqs'[r].url_state # reqs'[r].loaded.state]_vars
    /\ [](\A r \in Reqs :
            LET rec == reqs[r] IN
            /\ (rec.kind = "microsoft_callback" /\ Superseded(rec)) =>
                   /\ ~Validated(rec)
                   /\ rec.pc = "done" =>
                          rec.status = HTTP_400_BAD_REQUEST /\ rec.token = NoToken
            /\ Validated(rec) => rec.state = LastIssued)

\* The callback of the first of two logins, rejected.
C39_Witness ==
    \E r \in Reqs :
        LET rec == reqs[r] IN
        /\ rec.kind = "microsoft_callback" /\ rec.pc = "done"
        /\ rec.state = StateToken(1) /\ rec.loaded.state = StateToken(2)
        /\ rec.status = HTTP_400_BAD_REQUEST

\* ------------------------------------------------------------------------ C40
\* Request r, identified as a user who does not own the row it names, is answered.
ByNonOwner(r) ==
    LET rec == reqs[r] IN
    /\ ThroughGate(r) /\ rec.kind \in {"update_business", "delete_business"}
    /\ Identity(rec) # None
    /\ rec.target \in DOMAIN businesses
    /\ businesses[rec.target].user_id # Identity(rec)
\* The calls that change the stored image files.
FileCalls == {"save_uploaded_file", "delete_file"}
\* The row is removed or changed, its view count aside.
Touched(id) ==
    \/ id \notin DOMAIN businesses'
    \/ [businesses'[id] EXCEPT !.view_count = 0] # [businesses[id] EXCEPT !.view_count = 0]

\* C40: an update or delete of a business requested by an authenticated user
\* who does not own it fails with 403 and leaves the record, its slug and its
\* stored image files as they were; only the owner's request modifies or
\* removes it.
C40_OwnerOnly ==
    /\ [][\A r \in Reqs :
            ByNonOwner(r) =>
                /\ reqs'[r].status = HTTP_403_FORBIDDEN
                /\ businesses' = businesses
                /\ reqs'[r].calls \cap FileCalls = {}]_vars
    /\ [][\A id \in DOMAIN businesses :
            Touched(id) =>
                \E r \in Reqs : /\ ThroughGate(r) /\ reqs[r].target = id
                                 /\ reqs'[r].auth_user = businesses[id].user_id]_vars

\* Another user's edit of a business that has a slug and a logo is refused.
C40_Witness ==
    \E r \in Reqs :
        LET rec == reqs[r] IN
        /\ rec.kind = "update_business" /\ rec.pc = "done"
        /\ rec.status = HTTP_403_FORBIDDEN /\ rec.auth_user \in UserIds
        /\ rec.target \in DOMAIN businesses
        /\ businesses[rec.target].user_id # rec.auth_user
        /\ businesses[rec.target].slug = "acme"
        /\ businesses[rec.target].logo_url # None
        /\ rec.form_display_name = "Bolt" /\ rec.valid
====
